---------------------------- MODULE Spec2Model ----------------------------
(***************************************************************************)
(* A model of the code-element extraction and retrieval pipeline of        *)
(* AIKodReviewer (src/backend): the bounded dependency-closure expansion   *)
(* of VectorStore, the context budgeter and prompt builder of              *)
(* LMStudioClient, the project index, the keyword search and the pattern   *)
(* tier of the extractors of CodeIndexer, the call of the language model   *)
(* with the extraction of references, and the query endpoint.              *)
(*                                                                         *)
(* Every component has its own specification (Init, Next) over the one     *)
(* set of variables; the variables of the other components stay at their   *)
(* construction values.                                                    *)
(***************************************************************************)
EXTENDS Integers, Sequences, FiniteSets, TLC

(***************************************************************************)
(* Bounds of the model.                                                    *)
(***************************************************************************)
\* most entries of the "dependencies" metadata lists of a collection, all its
\* elements together
MaxEntries == 4
\* longest snippet list handed to the context budgeter
MaxSnippets == 3
\* most files under one project path
MaxFiles == 2
\* most index_project calls, and most changes of the directory tree, of one run
MaxPasses == 2
MaxChanges == 1
\* most elements of the ProjectIndex a search runs over
MaxElements == 3
\* most lines of a source text handed to an extractor
MaxLines == 4
\* most tokens of a snippet text handed to the dependency extraction
MaxTokens == 3

(***************************************************************************)
(* Program constants.                                                      *)
(***************************************************************************)
\* max_depth, as query_project passes it (and the parameter's default)
MaxDepth == 2

VARIABLES
    \* ---- VectorStore (vector_store.py) ----
    hasCollection,   \* client.get_collection(collection_name) succeeds
    exact,           \* the collection answers a name with the element of that name
    metaDeps,        \* element -> its metadata "dependencies" list, as split by ","
    nearest,         \* name -> the element collection.query(name, n_results=1) returned
    element_name,    \* the seed handed to get_element_with_dependencies
    visited,         \* the set `visited` of names
    result,          \* the list `result` of {metadata, depth}
    stack,           \* call stack of _get_recursive
    dphase,          \* "idle" | "running" | "done"
    \* ---- LMStudioClient (llm_client.py) ----
    code_snippets,      \* the snippet list handed to query_with_context
    max_context_chars,  \* the character budget
    max_context_tokens, \* self.max_context_tokens (context_length)
    question,           \* the question (its length)
    chat_history,       \* the chat history, a list of messages
    context,            \* the text _build_context returned
    prompt,             \* the text _build_prompt returned
    tokenWarning,       \* the token estimate warning was logged
    cphase,             \* "idle" | "context" | "prompt"
    \* ---- CodeIndexer (indexer.py) ----
    fs,                 \* the directory tree: project path -> its files, in walk order
    projects,           \* self.projects: project id -> ProjectIndex
    indexer_snippets,   \* self.code_snippets: project id -> (relative path -> text)
    project_path,       \* index_project: its argument
    project_id,         \* index_project: its locals
    elements,
    languages_set,
    total_files,
    supported_files,
    todo,               \* the files os.walk has still to yield
    returned,           \* what the last index_project call returned (or raised)
    iphase,             \* "idle" | "walking"
    dirty,              \* path -> its files changed since the last walk of it began
    cleanStart,         \* the walk under way began on a path indexed before and not changed since
    passes,             \* index_project calls begun
    changes,            \* changes made to the directory tree
    \* ---- CodeIndexer.search_elements (indexer.py) ----
    search_pid,         \* search_elements: its argument project_id
    search_query,       \* search_elements: its argument query
    search_results,     \* what search_elements returned
    sphase,             \* "idle" | "returned" | "raised"
    \* ---- query_project (main.py), _call_api and reference extraction (llm_client.py) ----
    request,            \* the QueryRequest of the call
    vector_results,     \* what vector_store.search returns for the question: names
    api_outcome,        \* how the call of the language model ends
    all_elements_data,  \* the candidates of the query: {metadata name, depth}
    code_elements,      \* the candidates handed to extract_references_from_response
    answer,             \* what _call_api returned
    references,         \* what extract_references_from_response returned
    http_status,        \* the status query_project answers with, 0 before it has
    query_error,        \* the exception that ended the call, "None" when none did
    qphase,             \* "idle" | "answered" | "extracted" | "raised" | "done"
    \* ---- the pattern tier of the extractors (indexer.py) ----
    lines,              \* code.split("\n")
    file_language,      \* the language of the file, the extractor's `language`
    line_no,            \* i of enumerate(lines, 1)
    extracted,          \* the list `elements` of the extractor
    xphase,             \* "idle" | "scanning" | "done"
    \* ---- the extraction of one file: detection, dispatch, tiers (indexer.py) ----
    file_name,          \* the name of the file, the last component of file_path
    parsers,            \* the keys of self.parsers
    parse_fault,        \* where the structural attempt raises: "none" | "parse" | a node
    nodes_todo,         \* the nodes of the syntax tree _walk_tree has still to visit
    walked,             \* what the _walk_tree calls have collected so far
    tier,               \* "none" | "structural" | "pattern": the tier that ran last
    \* ---- VectorStore.search (vector_store.py) ----
    n_results,          \* search: its argument n_results
    collection_answer,  \* how collection.query ends: it raises, or ranks the elements
    vphase,             \* "idle" | "searched"
    \* ---- VectorStore._extract_dependencies (vector_store.py) ----
    dep_code,           \* the snippet text, as its tokens
    dep_language,       \* the language of the element
    dependencies,       \* the set returned
    ephase              \* "idle" | "done"

depVars == <<hasCollection, exact, metaDeps, nearest, element_name, visited,
             result, stack, dphase>>

ctxVars == <<code_snippets, max_context_chars, max_context_tokens, question,
             chat_history, context, prompt, tokenWarning, cphase>>

idxVars == <<fs, projects, indexer_snippets, project_path, project_id, elements,
             languages_set, total_files, supported_files, todo, returned, iphase,
             dirty, cleanStart, passes, changes>>

srchVars == <<search_pid, search_query, search_results, sphase>>

qryVars == <<request, vector_results, api_outcome, all_elements_data, code_elements,
             answer, references, http_status, query_error, qphase>>

extVars == <<lines, file_language, line_no, extracted, xphase>>

tierVars == <<file_name, parsers, parse_fault, nodes_todo, walked, tier>>

storeVars == <<n_results, collection_answer, vphase>>

edgeVars == <<dep_code, dep_language, dependencies, ephase>>

vars == <<depVars, ctxVars, idxVars, srchVars, qryVars, extVars, tierVars, storeVars,
          edgeVars>>

\* what the steps of one component leave alone of the others
exceptDeps == <<ctxVars, idxVars, srchVars, qryVars, extVars, tierVars, storeVars,
                edgeVars>>
exceptCtx == <<depVars, idxVars, srchVars, qryVars, extVars, tierVars, storeVars,
               edgeVars>>
exceptIdx == <<depVars, ctxVars, srchVars, qryVars, extVars, tierVars, storeVars,
               edgeVars>>
exceptSrch == <<depVars, ctxVars, idxVars, qryVars, extVars, tierVars, storeVars,
                edgeVars>>
exceptQry == <<depVars, ctxVars, idxVars, srchVars, extVars, tierVars, storeVars,
               edgeVars>>
exceptExt == <<depVars, ctxVars, idxVars, srchVars, qryVars, tierVars, storeVars,
               edgeVars>>
exceptTier == <<depVars, ctxVars, idxVars, srchVars, qryVars, storeVars, edgeVars>>
exceptStore == <<depVars, ctxVars, idxVars, srchVars, extVars, tierVars, edgeVars>>
exceptEdge == <<depVars, ctxVars, idxVars, srchVars, qryVars, extVars, tierVars,
                storeVars>>

(***************************************************************************)
(* VectorStore.get_element_with_dependencies                               *)
(*                                                                         *)
(* The persisted collection is the external similarity index.  What it     *)
(* holds is fixed during one call and is learnt as the call queries it:    *)
(* nearest records the element each queried name was answered with, and    *)
(* metaDeps the "dependencies" metadata of each element returned.          *)
(***************************************************************************)
\* the names of the elements of the collection; an element is known by its name
Names == {"S", "A", "B", "C"}

\* the elements a collection answers with when its lookups are nearest-neighbour:
\* the other names are called identifiers that no indexed element bears
NearElements == {"A", "B"}

\* collection.query found no id
NoHit == "None"

\* the lists a set of names serialises to: ",".join(set) has the members in any
\* order, each once
DepLists ==
    {s \in UNION {[1..n -> Names] : n \in 0..Cardinality(Names)} :
        \A i, j \in 1..Len(s) : i # j => s[i] # s[j]}

\* the entries of the dependency lists read so far of the elements S
RECURSIVE EntriesRead(_)
EntriesRead(S) ==
    IF S = {} THEN 0
    ELSE LET e == CHOOSE x \in S : TRUE
         IN  Len(metaDeps[e]) + EntriesRead(S \ {e})

\* dict[key] = value
Put(d, key, value) == [k \in DOMAIN d \cup {key} |-> IF k = key THEN value ELSE d[k]]

\* line 111: what collection.query(query_texts=[name], n_results=1) may answer.
\* Under exact lookup it is the element of that name; else it is the nearest
\* neighbour, any element, and nothing only when the collection is empty (then the
\* first query of the call finds nothing)
QueryAnswers(name) ==
    IF exact THEN {name}
    ELSE IF nearest = <<>> THEN NearElements \cup {NoHit} ELSE NearElements

\* line 124: what the "dependencies" metadata of a returned element may be
MetadataDeps(e) ==
    IF e \in DOMAIN metaDeps THEN {metaDeps[e]}
    ELSE {s \in DepLists : Len(s) <= MaxEntries - EntriesRead(DOMAIN metaDeps)}

\* a frame of _get_recursive: at its entry test, or in its loop over deps
Frame(name, depth) == [name |-> name, depth |-> depth, pc |-> "enter", rest |-> <<>>]

Top == stack[Len(stack)]
Pop == SubSeq(stack, 1, Len(stack) - 1)

\* the visited set not consulted and one level more expanded
RejectedLate(name, depth) == depth > MaxDepth + 1

\* line 106: if depth > max_depth or name in visited: return
Rejected(name, depth) == depth > MaxDepth \/ name \in visited

\* lines 93-103 and 129: the collection is fetched, the recursion starts at the seed
GetElementWithDependencies ==
    /\ dphase = "idle"
    /\ IF ~hasCollection
         THEN /\ dphase' = "done"
              /\ UNCHANGED stack
         ELSE /\ dphase' = "running"
              /\ stack' = <<Frame(element_name, 0)>>
    /\ UNCHANGED <<hasCollection, exact, metaDeps, nearest, element_name, visited,
                   result>>
    /\ UNCHANGED exceptDeps

\* lines 105-124: entry of _get_recursive(name, depth)
RecurseEnter ==
    /\ dphase = "running"
    /\ stack # <<>>
    /\ Top.pc = "enter"
    /\ IF Rejected(Top.name, Top.depth)
         THEN /\ stack' = Pop
              /\ UNCHANGED <<visited, result, nearest, metaDeps>>
         ELSE /\ visited' = visited \cup {Top.name}
              /\ \E hit \in QueryAnswers(Top.name) :
                    /\ nearest' = Put(nearest, Top.name, hit)
                    /\ IF hit = NoHit
                         THEN /\ stack' = Pop
                              /\ UNCHANGED <<result, metaDeps>>
                         ELSE \E deps \in MetadataDeps(hit) :
                                /\ metaDeps' = Put(metaDeps, hit, deps)
                                /\ result' = Append(result,
                                        [name |-> hit, depth |-> Top.depth])
                                /\ stack' = [stack EXCEPT ![Len(stack)] =
                                        [@ EXCEPT !.pc = "loop", !.rest = deps]]
    /\ UNCHANGED <<hasCollection, exact, element_name, dphase>>
    /\ UNCHANGED exceptDeps

\* lines 125-127: for dep in deps: _get_recursive(dep, depth + 1)
RecurseLoop ==
    /\ dphase = "running"
    /\ stack # <<>>
    /\ Top.pc = "loop"
    /\ IF Top.rest = <<>>
         THEN stack' = Pop
         ELSE stack' = Append(
                [stack EXCEPT ![Len(stack)] = [@ EXCEPT !.rest = Tail(@)]],
                Frame(Head(Top.rest), Top.depth + 1))
    /\ UNCHANGED <<hasCollection, exact, metaDeps, nearest, element_name, visited,
                   result, dphase>>
    /\ UNCHANGED exceptDeps

\* line 130: return result
ReturnResult ==
    /\ dphase = "running"
    /\ stack = <<>>
    /\ dphase' = "done"
    /\ UNCHANGED <<hasCollection, exact, metaDeps, nearest, element_name, visited,
                   result, stack>>
    /\ UNCHANGED exceptDeps

(***************************************************************************)
(* VectorStore.search                                                      *)
(*                                                                         *)
(* A result of the search is known by the name in its metadata.            *)
(***************************************************************************)
\* results[...][0][:n_results]: the nearest n_results of the ranking
FirstN(seq, n) == SubSeq(seq, 1, IF n <= Len(seq) THEN n ELSE Len(seq))

\* only what collection.query raised is caught
CaughtFromQuery(error) == error = "query"

\* lines 77 and 90: the bare except catches whatever the body raised
CaughtBySearch(error) == TRUE

\* lines 73-91: search(project_id, query, n_results); get_collection raises for a
\* name the client has no collection of, and query may raise
Search ==
    /\ vphase = "idle"
    /\ LET error == IF ~hasCollection THEN "collection"
                    ELSE IF collection_answer.raises THEN "query" ELSE "None"
       IN  IF error = "None"
           THEN /\ vector_results' = FirstN(collection_answer.names, n_results)
                /\ vphase' = "searched"
           ELSE IF CaughtBySearch(error)
           THEN /\ vector_results' = <<>>
                /\ vphase' = "searched"
           ELSE /\ vphase' = "raised"
                /\ UNCHANGED vector_results
    /\ UNCHANGED <<request, api_outcome, all_elements_data, code_elements, answer,
                   references, http_status, query_error, qphase>>
    /\ UNCHANGED <<n_results, collection_answer>>
    /\ UNCHANGED exceptStore

(***************************************************************************)
(* VectorStore._extract_dependencies                                       *)
(*                                                                         *)
(* A text is the sequence of its tokens: words (the maximal runs of \w      *)
(* characters), the parentheses, a run of white space, a full stop.        *)
(***************************************************************************)
Punctuation == {"(", ")", " ", "."}

\* a maximal match of \w+
IsWord(token) == token \notin Punctuation

\* lines 137-138, 142-143: re.findall(r'(\w+)\s*\(', code): the words with an
\* opening parenthesis after them, white space at most between the two
CallMatches(code) ==
    {code[i] : i \in {k \in 1..Len(code) :
        /\ IsWord(code[k])
        /\ \/ (k + 1 <= Len(code) /\ code[k + 1] = "(")
           \/ (k + 2 <= Len(code) /\ code[k + 1] = " " /\ code[k + 2] = "(")}}

\* line 146: builtins
Builtins ==
    {"if", "for", "while", "return", "new", "this", "super", "print", "len", "str",
     "int"}

\* lines 132-149: _extract_dependencies(code, language): the pattern is applied
\* to java and python texts only
ExtractDependencies(code, language) ==
    (IF language = "java" THEN CallMatches(code)
     ELSE IF language = "python" THEN CallMatches(code)
     ELSE {}) \ Builtins

\* index_project line 42: dependencies = self._extract_dependencies(snippet,
\* elem.language)
ExtractDependenciesStep ==
    /\ ephase = "idle"
    /\ dependencies' = ExtractDependencies(dep_code, dep_language)
    /\ ephase' = "done"
    /\ UNCHANGED <<dep_code, dep_language>>
    /\ UNCHANGED exceptEdge

(***************************************************************************)
(* LMStudioClient._build_context, _build_prompt, query_with_context        *)
(*                                                                         *)
(* A text is modelled by what its length and its embedded parts are.  A    *)
(* snippet is [file_path, start_line, end_line, codeLen], codeLen being    *)
(* len(snippet.code).                                                      *)
(***************************************************************************)
Max(a, b) == IF a >= b THEN a ELSE b
Min(a, b) == IF a <= b THEN a ELSE b

\* len(str(n)) of a line number
Digits(n) == IF n < 10 THEN 1 ELSE IF n < 100 THEN 2 ELSE IF n < 1000 THEN 3 ELSE 4

\* len(file_path) of the paths the model uses
PathLen(fp) ==
    CASE fp = "PROJECT_METADATA" -> 16
      [] fp = "ELEMENTS_SUMMARY" -> 16
      [] fp = "a.py" -> 4
      [] fp = "src/b.py" -> 8

\* line 116: len(f"--- File: {file_path} (Lines {start_line}-{end_line}) ---\n")
SnippetHeaderLen(sn) ==
    10 + PathLen(sn.file_path) + 8 + Digits(sn.start_line) + 1
       + Digits(sn.end_line) + 6

\* line 120: snippet_size = len(snippet_header) + len(snippet_text) + 10
SnippetSize(sn) == SnippetHeaderLen(sn) + sn.codeLen + 10

\* line 124: snippet.file_path in ["PROJECT_METADATA", "ELEMENTS_SUMMARY"]
IsExempt(sn) == sn.file_path \in {"PROJECT_METADATA", "ELEMENTS_SUMMARY"}

\* the budget test forgetting what is already in the context
OverBudgetAlone(total_chars, snippet_size, budget) == snippet_size > budget

\* line 122: total_chars + snippet_size > max_context_chars
OverBudget(total_chars, snippet_size, budget) == total_chars + snippet_size > budget

\* the loop skipping a snippet that does not fit and going on (best fit)
RECURSIVE ContextLoopBestFit(_, _, _, _, _)
ContextLoopBestFit(snips, budget, i, context_parts, total_chars) ==
    IF i > Len(snips) THEN context_parts
    ELSE IF /\ OverBudget(total_chars, SnippetSize(snips[i]), budget)
            /\ ~IsExempt(snips[i])
         THEN ContextLoopBestFit(snips, budget, i + 1, context_parts, total_chars)
         ELSE ContextLoopBestFit(snips, budget, i + 1, Append(context_parts, i),
                                 total_chars + SnippetSize(snips[i]))

\* lines 115-137: the loop over code_snippets from snippet i on; context_parts
\* holds the indexes of the snippets appended so far (header, text and "" each)
RECURSIVE ContextLoop(_, _, _, _, _)
ContextLoop(snips, budget, i, context_parts, total_chars) ==
    IF i > Len(snips) THEN context_parts
    ELSE IF /\ OverBudget(total_chars, SnippetSize(snips[i]), budget)
            /\ ~IsExempt(snips[i])
         THEN context_parts    \* break
         ELSE ContextLoop(snips, budget, i + 1, Append(context_parts, i),
                          total_chars + SnippetSize(snips[i]))

RECURSIVE PartsLen(_, _)
\* len(header) + len(text), summed over the snippets with indexes idxs
PartsLen(snips, idxs) ==
    IF idxs = <<>> THEN 0
    ELSE SnippetHeaderLen(snips[Head(idxs)]) + snips[Head(idxs)].codeLen
         + PartsLen(snips, Tail(idxs))

\* line 139: len("\n".join(context_parts)): three strings per snippet (header, text,
\* ""), one "\n" between two strings
JoinLen(snips, idxs) ==
    IF idxs = <<>> THEN 0 ELSE PartsLen(snips, idxs) + (3 * Len(idxs) - 1)

NoText == [parts |-> <<>>, len |-> 0]

\* lines 107-145: _build_context(code_snippets, max_context_chars)
BuildContext(snips, budget) ==
    IF snips = <<>> THEN NoText
    ELSE LET idxs == ContextLoop(snips, budget, 1, <<>>, 0)
         IN  [parts |-> idxs, len |-> JoinLen(snips, idxs)]

\* lines 103-105: _estimate_tokens, of a text of length n
EstimateTokens(n) == Max(1, n \div 4)

LastThree(h) == IF Len(h) <= 3 THEN h ELSE SubSeq(h, Len(h) - 2, Len(h))

\* line 163: "Kullanıcı" or "Asistan"
RoleLen(msg) == IF msg.role = "user" THEN 9 ELSE 7

RECURSIVE HistoryLinesLen(_)
\* line 164: f"{role}: {content[:200]}\n" for each message
HistoryLinesLen(h) ==
    IF h = <<>> THEN 0
    ELSE RoleLen(Head(h)) + 2 + Min(Head(h).contentLen, 200) + 1
         + HistoryLinesLen(Tail(h))

\* lines 159-164: len(history_text); its first line is "\n\nÖNCEKİ SOHBET:\n"
HistoryTextLen(h) == IF h = <<>> THEN 0 ELSE 17 + HistoryLinesLen(LastThree(h))

\* line 167: total_tokens
TotalTokens(q, ctx, h) ==
    EstimateTokens(ctx.len) + EstimateTokens(q)
        + EstimateTokens(HistoryTextLen(h)) + 100

\* the prompt builder shortening the context to the tokens left, as its warning says
BuildPromptTruncating(q, ctx, h) ==
    LET keep == IF TotalTokens(q, ctx, h) > max_context_tokens
                THEN [parts |-> ctx.parts,
                      len |-> Min(ctx.len, 4 * Max(0, max_context_tokens - 500))]
                ELSE ctx
    IN  [template |-> IF keep.len > 0 THEN "with_context" ELSE "no_context",
         history_text |-> HistoryTextLen(h),
         context |-> keep,
         question |-> q]

\* lines 147-205: _build_prompt(question, context, chat_history): the template
\* chosen and the texts embedded in it
BuildPrompt(q, ctx, h) ==
    [template |-> IF ctx.len > 0 THEN "with_context" ELSE "no_context",
     history_text |-> HistoryTextLen(h),
     context |-> ctx,
     question |-> q]

NoPrompt == [template |-> "none", history_text |-> 0, context |-> NoText,
             question |-> 0]

\* line 91: context = self._build_context(code_snippets, max_context_chars)
BuildContextStep ==
    /\ cphase = "idle"
    /\ context' = BuildContext(code_snippets, max_context_chars)
    /\ cphase' = "context"
    /\ UNCHANGED <<code_snippets, max_context_chars, max_context_tokens, question,
                   chat_history, prompt, tokenWarning>>
    /\ UNCHANGED exceptCtx

\* line 94: prompt = self._build_prompt(question, context, chat_history), and the
\* warning of lines 169-177
BuildPromptStep ==
    /\ cphase = "context"
    /\ prompt' = BuildPrompt(question, context, chat_history)
    /\ tokenWarning' = (TotalTokens(question, context, chat_history)
                            > max_context_tokens)
    /\ cphase' = "prompt"
    /\ UNCHANGED <<code_snippets, max_context_chars, max_context_tokens, question,
                   chat_history, context>>
    /\ UNCHANGED exceptCtx

(***************************************************************************)
(* CodeIndexer.index_project, get_code_snippet                             *)
(*                                                                         *)
(* A file of the tree is [name, fault, text]: its path relative to the     *)
(* project root, whether reading it or extracting from it raises, and its  *)
(* text.  index_project is one step per file os.walk yields.  A path is    *)
(* the sequence of its components.                                         *)
(***************************************************************************)
Paths == {"proj", "other"}

\* line 262: hashlib.md5(project_path.encode()).hexdigest()[:12], a function of the
\* path alone; the paths of the model have different digests
ProjectId(path) ==
    CASE path = "proj" -> "id_proj"
      [] path = "other" -> "id_other"

\* Path(file_path).suffix of the file names the model uses
Suffix(name) ==
    CASE name = "a.py" -> ".py"
      [] name = "B.PY" -> ".PY"
      [] name = "c.java" -> ".java"
      [] name = "d.py" -> ".py"
      [] name = "e.bin" -> ".bin"
      [] name = "s.css" -> ".css"
      [] name = "m.js" -> ".js"
      [] name = "t.ts" -> ".ts"

\* the suffix compared as it is written
LowerKept(ext) == ext

\* str.lower() of a suffix
Lower(ext) == IF ext = ".PY" THEN ".py" ELSE ext

\* lines 58-73: ext_map
ExtMap ==
    (".py" :> "python") @@ (".js" :> "javascript") @@ (".jsx" :> "javascript")
    @@ (".ts" :> "typescript") @@ (".tsx" :> "typescript") @@ (".java" :> "java")
    @@ (".php" :> "php") @@ (".html" :> "html") @@ (".htm" :> "html")
    @@ (".css" :> "css") @@ (".cpp" :> "cpp") @@ (".c" :> "c") @@ (".go" :> "go")
    @@ (".rs" :> "rust")

\* ext_map.get(ext) found nothing
NoLanguage == "None"

\* an extension outside ext_map taken for python
DetectLanguageDefaulting(name) ==
    LET ext == Lower(Suffix(name))
    IN  IF ext \in DOMAIN ExtMap THEN ExtMap[ext] ELSE "python"

\* lines 56-75: _detect_language
DetectLanguage(name) ==
    LET ext == Lower(Suffix(name))
    IN  IF ext \in DOMAIN ExtMap THEN ExtMap[ext] ELSE NoLanguage

\* the declarations an extractor finds in the texts the model uses
Declarations(text) ==
    CASE text = "def foo" ->
            <<[name |-> "foo", type |-> "function", start_line |-> 1, end_line |-> 3,
               signature |-> "def foo():"]>>
      [] text = "def foo; class Bar" ->
            <<[name |-> "foo", type |-> "function", start_line |-> 1, end_line |-> 3,
               signature |-> "def foo():"],
              [name |-> "Bar", type |-> "class", start_line |-> 4, end_line |-> 9,
               signature |-> "class Bar:"]>>
      [] text = "class Bar" ->
            <<[name |-> "Bar", type |-> "class", start_line |-> 1, end_line |-> 2,
               signature |-> "class Bar:"]>>
      [] OTHER -> <<>>

\* lines 296-303: the extractor of the language, or no element for a language
\* without one
FileElements(text, relative_path, language) ==
    IF language \in {"python", "javascript", "typescript", "java"}
    THEN [i \in 1..Len(Declarations(text)) |->
            [name |-> Declarations(text)[i].name,
             type |-> Declarations(text)[i].type,
             file_path |-> relative_path,
             start_line |-> Declarations(text)[i].start_line,
             end_line |-> Declarations(text)[i].end_line,
             language |-> language,
             signature |-> Declarations(text)[i].signature]]
    ELSE <<>>

\* line 274: file_path = os.path.join(root, file)
JoinPath(root, name) == <<root, name>>

\* line 292: relative_path = os.path.relpath(file_path, project_path)
RelPath(file_path, root) == Tail(file_path)

\* the text stored under the joined path instead of the relative one
SnippetKeyJoined(file_path, relative_path) == file_path

\* line 293: the key of self.code_snippets[project_id][relative_path] = code
SnippetKey(file_path, relative_path) == relative_path

\* only a failure to read is caught; one of the extractor propagates
CaughtReadOnly(fault) == fault = "read"

\* lines 284 and 307: try ... except Exception catches what the body raises
Caught(fault) == TRUE

\* the element list carried over from the index of the last call
InitialElementsKept(pid) ==
    IF pid \in DOMAIN projects THEN projects[pid].elements ELSE <<>>

\* line 263: elements = []
InitialElements(pid) == <<>>

\* the languages in sorted order
LanguageOrder ==
    <<"c", "cpp", "css", "go", "html", "java", "javascript", "php", "python",
      "rust", "typescript">>

\* line 315: sorted(list(languages_set))
SortedList(S) == SelectSeq(LanguageOrder, LAMBDA l : l \in S)

NoIndex == [project_id |-> "None", total_files |-> 0, supported_files |-> 0,
            languages |-> <<>>, elements |-> <<>>]

NoReturn == [status |-> "none", project_id |-> "None", project_index |-> NoIndex]

\* lines 259-266: index_project(project_path) begins
StartIndex(path) ==
    /\ iphase = "idle"
    /\ passes < MaxPasses
    /\ project_path' = path
    /\ project_id' = ProjectId(path)
    /\ elements' = InitialElements(ProjectId(path))
    /\ languages_set' = {}
    /\ total_files' = 0
    /\ supported_files' = 0
    /\ todo' = fs[path]
    /\ iphase' = "walking"
    /\ cleanStart' = (ProjectId(path) \in DOMAIN projects /\ ~dirty[path])
    /\ dirty' = [dirty EXCEPT ![path] = FALSE]
    /\ passes' = passes + 1
    /\ UNCHANGED <<fs, projects, indexer_snippets, returned, changes>>
    /\ UNCHANGED exceptIdx

\* an exception leaves index_project
Raise ==
    /\ returned' = [status |-> "raised", project_id |-> "None",
                    project_index |-> NoIndex]
    /\ iphase' = "idle"
    /\ todo' = <<>>

\* lines 273-308: one file of the walk
VisitFile ==
    /\ iphase = "walking"
    /\ todo # <<>>
    /\ LET file == Head(todo)
           file_path == JoinPath(project_path, file.name)
           language == DetectLanguage(file.name)
           relative_path == RelPath(file_path, project_path)
           stored == Put(indexer_snippets, project_id,
                         Put(IF project_id \in DOMAIN indexer_snippets
                             THEN indexer_snippets[project_id] ELSE <<>>,
                             SnippetKey(file_path, relative_path), file.text))
       IN  /\ total_files' = total_files + 1
           /\ IF language = NoLanguage
                THEN /\ todo' = Tail(todo)
                     /\ UNCHANGED <<supported_files, languages_set, indexer_snippets,
                                    elements, returned, iphase>>
                ELSE /\ supported_files' = supported_files + 1
                     /\ languages_set' = languages_set \cup {language}
                     /\ indexer_snippets' =
                            IF file.fault = "read" THEN indexer_snippets ELSE stored
                     /\ IF file.fault = "none"
                          THEN /\ elements' = elements \o
                                      FileElements(file.text, relative_path, language)
                               /\ todo' = Tail(todo)
                               /\ UNCHANGED <<returned, iphase>>
                          ELSE IF Caught(file.fault)
                                 THEN /\ todo' = Tail(todo)
                                      /\ UNCHANGED <<elements, returned, iphase>>
                                 ELSE /\ Raise
                                      /\ UNCHANGED elements
    /\ UNCHANGED <<fs, projects, project_path, project_id, dirty, cleanStart,
                   passes, changes>>
    /\ UNCHANGED exceptIdx

\* lines 310-320: the ProjectIndex is built, registered and returned
FinishIndex ==
    /\ iphase = "walking"
    /\ todo = <<>>
    /\ LET project_index ==
              [project_id |-> project_id,
               total_files |-> total_files,
               supported_files |-> supported_files,
               languages |-> SortedList(languages_set),
               elements |-> elements]
       IN  /\ projects' = Put(projects, project_id, project_index)
           /\ returned' = [status |-> "ok", project_id |-> project_id,
                           project_index |-> project_index]
    /\ iphase' = "idle"
    /\ UNCHANGED <<fs, indexer_snippets, project_path, project_id, elements,
                   languages_set, total_files, supported_files, todo, dirty,
                   cleanStart, passes, changes>>
    /\ UNCHANGED exceptIdx

\* the index of the file named name in the listing, 0 when it has none
PlaceOf(listing, name) ==
    IF \E i \in 1..Len(listing) : listing[i].name = name
    THEN CHOOSE i \in 1..Len(listing) : listing[i].name = name
    ELSE 0

\* the environment writes a file under a project path: a new one, or new content
\* (or permissions) of one that is there
WriteFile(path, f) ==
    /\ iphase = "idle"
    /\ changes < MaxChanges
    /\ LET i == PlaceOf(fs[path], f.name)
       IN  IF i = 0
           THEN /\ Len(fs[path]) < MaxFiles
                /\ fs' = [fs EXCEPT ![path] = Append(@, f)]
           ELSE /\ fs[path][i] # f
                /\ fs' = [fs EXCEPT ![path][i] = f]
    /\ dirty' = [dirty EXCEPT ![path] = TRUE]
    /\ changes' = changes + 1
    /\ UNCHANGED <<projects, indexer_snippets, project_path, project_id, elements,
                   languages_set, total_files, supported_files, todo, returned,
                   iphase, cleanStart, passes>>
    /\ UNCHANGED exceptIdx

\* the environment removes a file under a project path
RemoveFile(path, i) ==
    /\ iphase = "idle"
    /\ changes < MaxChanges
    /\ i \in 1..Len(fs[path])
    /\ fs' = [fs EXCEPT ![path] =
                SubSeq(@, 1, i - 1) \o SubSeq(@, i + 1, Len(@))]
    /\ dirty' = [dirty EXCEPT ![path] = TRUE]
    /\ changes' = changes + 1
    /\ UNCHANGED <<projects, indexer_snippets, project_path, project_id, elements,
                   languages_set, total_files, supported_files, todo, returned,
                   iphase, cleanStart, passes>>
    /\ UNCHANGED exceptIdx

\* get_code_snippet found no text
NoSnippet == [file_path |-> <<>>, start_line |-> 0, end_line |-> 0, code |-> "None"]

\* lines 338-359: get_code_snippet; code stands for the lines start_line..end_line
\* of the stored text
GetCodeSnippet(pid, file_path, start_line, end_line) ==
    IF pid \notin DOMAIN indexer_snippets THEN NoSnippet
    ELSE IF file_path \notin DOMAIN indexer_snippets[pid] THEN NoSnippet
    ELSE [file_path |-> file_path, start_line |-> start_line, end_line |-> end_line,
          code |-> indexer_snippets[pid][file_path]]

(***************************************************************************)
(* The pattern tier of the extractors and CodeIndexer._find_end_line       *)
(*                                                                         *)
(* A line of code.split("\n") is [indent, text]: the width of its leading  *)
(* whitespace and what is left of it when stripped.  A text that ends with *)
(* a newline has an empty last line.                                       *)
(***************************************************************************)
\* line.strip()
Strip(line) == line.text

\* len(line) - len(line.lstrip())
LeadingWidth(line) == line.indent

\* str.startswith("#") of the stripped texts the model uses
StartsWithHash(text) == text = "# note"

\* what the patterns of a language find on a line, in the order the extractor tests
\* them.  Python's are anchored at the start of the line (re.match of "^def",
\* "^class"); the others are searched for anywhere in the line, and Java's method
\* pattern takes any "word word(" for a method
PatternMatches(lang, line) ==
    IF lang = "python"
    THEN IF LeadingWidth(line) = 0 /\ Strip(line) = "def f():"
           THEN <<[name |-> "f", type |-> "function"]>>
         ELSE IF LeadingWidth(line) = 0 /\ Strip(line) = "class A:"
           THEN <<[name |-> "A", type |-> "class"]>>
         ELSE <<>>
    ELSE IF lang \in {"javascript", "typescript"}
    THEN IF Strip(line) = "function g() {"
           THEN <<[name |-> "g", type |-> "function"]>>
         ELSE IF Strip(line) = "class B { m() {"
           THEN <<[name |-> "m", type |-> "function"], [name |-> "B", type |-> "class"]>>
         ELSE <<>>
    ELSE IF Strip(line) = "class A:" THEN <<[name |-> "A", type |-> "class"]>>
         ELSE IF Strip(line) = "class B { m() {"
           THEN <<[name |-> "B", type |-> "class"]>>
         ELSE IF Strip(line) = "def f():" THEN <<[name |-> "f", type |-> "method"]>>
         ELSE IF Strip(line) = "function g() {"
           THEN <<[name |-> "g", type |-> "method"]>>
         ELSE <<>>

\* only a line indented less than the declaration ends its block
DedentedStrictly(current_indent, start_indent) == current_indent < start_indent

\* line 254: current_indent <= start_indent
Dedented(current_indent, start_indent) == current_indent <= start_indent

\* the line before the ending line taken for the zero-based index of it
RECURSIVE FindEndLoopOneLess(_, _, _, _)
FindEndLoopOneLess(all_lines, start_line, start_indent, i) ==
    IF i >= Len(all_lines) THEN Len(all_lines)
    ELSE LET line == all_lines[i + 1]
         IN  IF /\ Strip(line) # ""
                /\ ~StartsWithHash(Strip(line))
                /\ Dedented(LeadingWidth(line), start_indent)
                /\ i > start_line - 1
             THEN i - 1
             ELSE FindEndLoopOneLess(all_lines, start_line, start_indent, i + 1)

\* lines 250-257: for i in range(start_line, len(lines)); i is the zero-based index
\* of the line all_lines[i + 1]
RECURSIVE FindEndLoop(_, _, _, _)
FindEndLoop(all_lines, start_line, start_indent, i) ==
    IF i >= Len(all_lines) THEN Len(all_lines)
    ELSE LET line == all_lines[i + 1]
         IN  IF /\ Strip(line) # ""
                /\ ~StartsWithHash(Strip(line))
                /\ Dedented(LeadingWidth(line), start_indent)
                /\ i > start_line - 1
             THEN i
             ELSE FindEndLoop(all_lines, start_line, start_indent, i + 1)

\* lines 243-257: _find_end_line(lines, start_line)
FindEndLine(all_lines, start_line) ==
    IF start_line >= Len(all_lines) THEN start_line + 1
    ELSE FindEndLoop(all_lines, start_line, LeadingWidth(all_lines[start_line]),
                     start_line)

\* the relative path the extractor is handed: that of the file
SourcePath(lang) == <<file_name>>

\* the lines numbered from the last one back
LineElementsCountedBack(all_lines, i, lang) ==
    LET found_here == PatternMatches(lang, all_lines[i])
    IN  [k \in 1..Len(found_here) |->
            [name |-> found_here[k].name,
             type |-> found_here[k].type,
             file_path |-> SourcePath(lang),
             start_line |-> Len(all_lines) + 1 - i,
             end_line |-> FindEndLine(all_lines, i),
             language |-> lang,
             signature |-> Strip(all_lines[i])]]

\* lines 99-121, 142-165, 182-205: the elements of the matches of line i
LineElements(all_lines, i, lang) ==
    LET found_here == PatternMatches(lang, all_lines[i])
    IN  [k \in 1..Len(found_here) |->
            [name |-> found_here[k].name,
             type |-> found_here[k].type,
             file_path |-> SourcePath(lang),
             start_line |-> i,
             end_line |-> FindEndLine(all_lines, i),
             language |-> lang,
             signature |-> Strip(all_lines[i])]]

\* lines 79, 92 (126-129, 171-173): the pattern tier of an extractor begins
ExtractElements ==
    /\ xphase = "idle"
    /\ extracted' = <<>>
    /\ line_no' = 1
    /\ xphase' = "scanning"
    /\ UNCHANGED <<lines, file_language>>
    /\ UNCHANGED exceptExt

\* one turn of for i, line in enumerate(lines, 1)
ScanLine ==
    /\ xphase = "scanning"
    /\ line_no <= Len(lines)
    /\ extracted' = extracted \o LineElements(lines, line_no, file_language)
    /\ line_no' = line_no + 1
    /\ UNCHANGED <<lines, file_language, xphase>>
    /\ UNCHANGED exceptExt

\* return elements
ExtractReturn ==
    /\ xphase = "scanning"
    /\ line_no > Len(lines)
    /\ xphase' = "done"
    /\ UNCHANGED <<lines, file_language, line_no, extracted>>
    /\ UNCHANGED exceptExt

(***************************************************************************)
(* The extraction of one file: _init_parsers, _detect_language, the        *)
(* dispatch of index_project, the structural tier (_walk_tree) and the     *)
(* fall-back to the pattern tier                                           *)
(*                                                                         *)
(* A node of the syntax tree is [type, name, first, last]: node.type, the  *)
(* text of its first child of type "identifier" ("None" when it has none), *)
(* and the rows node.start_point[0] and node.end_point[0].  A tree is the  *)
(* sequence of its nodes in pre-order, the order _walk_tree visits them;   *)
(* the leaves, which yield nothing, are left out.                          *)
(***************************************************************************)
\* lines 37-45: lang_map, in the order of its items
ParserOrder == <<"python", "javascript", "typescript", "java", "php", "html", "css">>

\* lines 31-54: what self.parsers may hold after _init_parsers: nothing when
\* tree-sitter cannot be imported, and the languages before the one whose
\* set_language raised, all of them when none did
ParserSets == {{ParserOrder[i] : i \in 1..k} : k \in 0..Len(ParserOrder)}

Def1 == <<[indent |-> 0, text |-> "def f():"], [indent |-> 4, text |-> "x = 1"]>>
ClassDef ==
    <<[indent |-> 0, text |-> "class A:"], [indent |-> 4, text |-> "def f():"],
      [indent |-> 8, text |-> "x = 1"]>>
Plain == <<[indent |-> 0, text |-> "x = 1"]>>
DefThenPlain ==
    <<[indent |-> 0, text |-> "def f():"], [indent |-> 4, text |-> "x = 1"],
      [indent |-> 0, text |-> "x = 1"]>>
Script ==
    <<[indent |-> 0, text |-> "function g() {"], [indent |-> 4, text |-> "x = 1"],
      [indent |-> 0, text |-> "}"]>>

Node(type, name, first, last) ==
    [type |-> type, name |-> name, first |-> first, last |-> last]

\* line 85: parser.parse(code.encode()) of the Python parser, for the texts the
\* model uses
SyntaxTree(all_lines) ==
    CASE all_lines = Def1 ->
            <<Node("module", "None", 0, 1), Node("function_definition", "f", 0, 1),
              Node("parameters", "None", 0, 0), Node("block", "None", 1, 1),
              Node("expression_statement", "None", 1, 1)>>
      [] all_lines = ClassDef ->
            <<Node("module", "None", 0, 2), Node("class_definition", "A", 0, 2),
              Node("block", "None", 1, 2), Node("function_definition", "f", 1, 2),
              Node("parameters", "None", 1, 1), Node("block", "None", 2, 2),
              Node("expression_statement", "None", 2, 2)>>
      [] all_lines = Plain ->
            <<Node("module", "None", 0, 0), Node("expression_statement", "None", 0, 0)>>
      [] all_lines = DefThenPlain ->
            <<Node("module", "None", 0, 2), Node("function_definition", "f", 0, 1),
              Node("parameters", "None", 0, 0), Node("block", "None", 1, 1),
              Node("expression_statement", "None", 1, 1),
              Node("expression_statement", "None", 2, 2)>>
      [] OTHER -> <<Node("module", "None", 0, Len(all_lines) - 1),
                    Node("ERROR", "None", 0, Len(all_lines) - 1)>>

\* line 226: "\n".join(...)[:100] of the spans of the texts the model uses, none of
\* them longer than 100 characters
JoinedText(span) ==
    CASE span = Def1 -> "def f():\n    x = 1"
      [] span = ClassDef -> "class A:\n    def f():\n        x = 1"
      [] span = Tail(ClassDef) -> "    def f():\n        x = 1"
      [] OTHER -> ""

\* lines 214-236: what _walk_tree appends for one node
NodeElements(all_lines, node, relative_path, lang) ==
    IF node.type \in {"function_definition", "class_definition"} /\ node.name # "None"
    THEN <<[name |-> node.name,
            type |-> IF node.type = "function_definition" THEN "function" ELSE "class",
            file_path |-> relative_path,
            start_line |-> node.first + 1,
            end_line |-> node.last + 1,
            language |-> lang,
            signature |-> JoinedText(SubSeq(all_lines, node.first + 1,
                                            Min(node.last + 1, Len(all_lines))))]>>
    ELSE <<>>

\* what the tree walk had collected is kept when it raises
CollectedKept(partial) == partial

\* lines 79-89: `elements` when the except clause is reached: extend (line 86) has
\* not run, and what the _walk_tree calls had collected is in lists of their own
CollectedAtFallback(partial) == <<>>

\* lines 82, 125-129, 170-174: the extractor makes a structural attempt; only
\* _extract_python_elements consults self.parsers
UsesParser(lang) == lang = "python" /\ "python" \in parsers

\* lines 296-303: the languages index_project has an extractor for
HasExtractor(lang) == lang \in {"python", "javascript", "typescript", "java"}

\* the pattern tier of an extractor begins with the elements it has
BeginPatternTier(have) ==
    /\ extracted' = have
    /\ line_no' = 1
    /\ xphase' = "scanning"
    /\ tier' = "pattern"

\* index_project lines 277-303 for one file, and the entry of its extractor
\* (lines 79-85, 127-129, 172-174)
ExtractFile ==
    /\ xphase = "idle"
    /\ LET language == DetectLanguage(file_name)
       IN  /\ file_language' = language
           /\ IF language = NoLanguage
                THEN /\ xphase' = "skipped"
                     /\ UNCHANGED <<extracted, line_no, tier, nodes_todo>>
              ELSE IF ~HasExtractor(language)
                THEN /\ xphase' = "done"
                     /\ extracted' = <<>>
                     /\ UNCHANGED <<line_no, tier, nodes_todo>>
              ELSE IF ~UsesParser(language)
                THEN /\ BeginPatternTier(<<>>)
                     /\ UNCHANGED nodes_todo
              ELSE IF parse_fault = "parse"
                THEN /\ BeginPatternTier(CollectedAtFallback(<<>>))
                     /\ UNCHANGED nodes_todo
              ELSE /\ nodes_todo' = SyntaxTree(lines)
                   /\ xphase' = "walking"
                   /\ tier' = "structural"
                   /\ UNCHANGED <<extracted, line_no>>
    /\ UNCHANGED <<lines, file_name, parsers, parse_fault, walked>>
    /\ UNCHANGED exceptTier

\* lines 209-241: _walk_tree visits one node
WalkNode ==
    /\ xphase = "walking"
    /\ nodes_todo # <<>>
    /\ walked' = walked \o NodeElements(lines, Head(nodes_todo), SourcePath(file_language),
                                        file_language)
    /\ nodes_todo' = Tail(nodes_todo)
    /\ UNCHANGED <<lines, file_language, line_no, extracted, xphase>>
    /\ UNCHANGED <<file_name, parsers, parse_fault, tier>>
    /\ UNCHANGED exceptTier

\* lines 88-92: _walk_tree raises, at any node or at its end; the except clause
\* catches it and the pattern tier begins
WalkRaises ==
    /\ xphase = "walking"
    /\ parse_fault = "walk"
    /\ BeginPatternTier(CollectedAtFallback(walked))
    /\ UNCHANGED <<lines, file_language>>
    /\ UNCHANGED <<file_name, parsers, parse_fault, nodes_todo, walked>>
    /\ UNCHANGED exceptTier

\* lines 86-87: elements.extend(...); return elements
StructuralReturn ==
    /\ xphase = "walking"
    /\ nodes_todo = <<>>
    /\ parse_fault = "none"
    /\ extracted' = walked
    /\ xphase' = "done"
    /\ UNCHANGED <<lines, file_language, line_no>>
    /\ UNCHANGED <<file_name, parsers, parse_fault, nodes_todo, walked, tier>>
    /\ UNCHANGED exceptTier

(***************************************************************************)
(* CodeIndexer.search_elements                                             *)
(*                                                                         *)
(* Names, signatures and queries are texts; Chars gives the characters of  *)
(* the texts the model uses, so that lowercasing and the substring test    *)
(* are computed character by character.                                    *)
(***************************************************************************)
Chars(text) ==
    CASE text = "" -> <<>>
      [] text = "foo" -> <<"f", "o", "o">>
      [] text = "Foo" -> <<"F", "o", "o">>
      [] text = "Bar" -> <<"B", "a", "r">>
      [] text = "BAR" -> <<"B", "A", "R">>
      [] text = "fooBar" -> <<"f", "o", "o", "B", "a", "r">>
      [] text = "run" -> <<"r", "u", "n">>
      [] text = "zip" -> <<"z", "i", "p">>
      [] text = "(f" -> <<"(", "f">>
      [] text = "def foo():" -> <<"d", "e", "f", " ", "f", "o", "o", "(", ")", ":">>
      [] text = "class Bar:" -> <<"c", "l", "a", "s", "s", " ", "B", "a", "r", ":">>
      [] text = "def fooBar():" ->
            <<"d", "e", "f", " ", "f", "o", "o", "B", "a", "r", "(", ")", ":">>
      [] text = "def run(foo):" ->
            <<"d", "e", "f", " ", "r", "u", "n", "(", "f", "o", "o", ")", ":">>
      [] text = "FOO" ->
            <<"F", "O", "O">>
      [] text = "foobar" ->
            <<"f", "o", "o", "b", "a", "r">>
      [] text = "Hata: Timeout" ->
            <<"H", "a", "t", "a", ":", " ", "T", "i", "m", "e", "o", "u", "t">>
      [] text = "Hata: LMStudio" ->
            <<"H", "a", "t", "a", ":", " ", "L", "M", "S", "t", "u", "d", "i", "o">>
      [] text = "Hata: error" ->
            <<"H", "a", "t", "a", ":", " ", "e", "r", "r", "o", "r">>
      [] text = "API Hatasi: 500" ->
            <<"A", "P", "I", " ", "H", "a", "t", "a", "s", "i", ":", " ", "5", "0",
            "0">>
      [] text = ".py" -> <<".", "p", "y">>
      [] text = ".PY" -> <<".", "P", "Y">>
      [] text = ".js" -> <<".", "j", "s">>
      [] text = ".jsx" -> <<".", "j", "s", "x">>
      [] text = ".ts" -> <<".", "t", "s">>
      [] text = ".tsx" -> <<".", "t", "s", "x">>
      [] text = ".java" -> <<".", "j", "a", "v", "a">>
      [] text = ".php" -> <<".", "p", "h", "p">>
      [] text = ".html" -> <<".", "h", "t", "m", "l">>
      [] text = ".htm" -> <<".", "h", "t", "m">>
      [] text = ".css" -> <<".", "c", "s", "s">>
      [] text = ".cpp" -> <<".", "c", "p", "p">>
      [] text = ".c" -> <<".", "c">>
      [] text = ".go" -> <<".", "g", "o">>
      [] text = ".rs" -> <<".", "r", "s">>
      [] text = ".bin" -> <<".", "b", "i", "n">>

UpperLetters ==
    <<"A", "B", "C", "D", "E", "F", "G", "H", "I", "J", "K", "L", "M", "N", "O", "P",
    "Q", "R", "S", "T", "U", "V", "W", "X", "Y", "Z">>
LowerLetters ==
    <<"a", "b", "c", "d", "e", "f", "g", "h", "i", "j", "k", "l", "m", "n", "o", "p",
    "q", "r", "s", "t", "u", "v", "w", "x", "y", "z">>

\* the case of the letter kept: a case-sensitive comparison
LowerCharKept(c) == c

\* str.lower() of one character
LowerChar(c) ==
    IF \E i \in 1..Len(UpperLetters) : UpperLetters[i] = c
    THEN LowerLetters[CHOOSE i \in 1..Len(UpperLetters) : UpperLetters[i] = c]
    ELSE c

\* str.lower()
LowerText(chars) == [i \in 1..Len(chars) |-> LowerChar(chars[i])]

\* Python's `needle in hay` on strings
Contains(needle, hay) ==
    \E k \in 0..(Len(hay) - Len(needle)) : SubSeq(hay, k + 1, k + Len(needle)) = needle

\* the membership test skipped: every project id taken for a registered one
RegisteredAlways(pid) == TRUE

\* line 324: project_id in self.projects
Registered(pid) == pid \in DOMAIN projects

\* the list of the index_project call under way read, when there is one for the id
StoredElementsLive(pid) ==
    IF iphase = "walking" /\ project_id = pid THEN elements ELSE projects[pid].elements

\* line 327: elements = self.projects[project_id].elements
StoredElements(pid) == projects[pid].elements

\* lines 332-333: the test of one element
SearchMatch(query_lower, element) ==
    \/ Contains(query_lower, LowerText(Chars(element.name)))
    \/ Contains(query_lower, LowerText(Chars(element.signature)))

\* lines 331-334: the loop over the elements from the i-th on
RECURSIVE SearchLoop(_, _, _, _)
SearchLoop(stored, query_lower, i, results) ==
    IF i > Len(stored) THEN results
    ELSE SearchLoop(stored, query_lower, i + 1,
                    IF SearchMatch(query_lower, stored[i])
                    THEN Append(results, stored[i]) ELSE results)

\* lines 322-336: search_elements(project_id, query); the lookup of line 327 raises
\* KeyError for an id that is no key of self.projects
SearchElements(pid, query) ==
    /\ sphase = "idle"
    /\ search_pid' = pid
    /\ search_query' = query
    /\ IF ~Registered(pid)
         THEN /\ search_results' = <<>>
              /\ sphase' = "returned"
         ELSE IF pid \notin DOMAIN projects
         THEN /\ search_results' = <<>>
              /\ sphase' = "raised"
         ELSE /\ search_results' =
                    SearchLoop(StoredElements(pid), LowerText(Chars(query)), 1, <<>>)
              /\ sphase' = "returned"
    /\ UNCHANGED exceptSrch

(***************************************************************************)
(* LMStudioClient._call_api and extract_references_from_response           *)
(*                                                                         *)
(* An answer is <<text>>, or <<>> for Python's None.  The error texts are  *)
(* written with the ASCII part of the messages of the code.                *)
(***************************************************************************)
NoAnswer == <<>>

\* lines 245-273: what _call_api returns for an outcome of session.post.  A 200
\* response whose body has no "choices", or an empty list of them, takes neither
\* return of lines 251-261: the function ends and returns None
ApiReturn(outcome) ==
    IF outcome.kind = "timeout" THEN <<"Hata: Timeout">>
    ELSE IF outcome.kind = "connection" THEN <<"Hata: LMStudio">>
    ELSE IF outcome.kind = "exception" THEN <<"Hata: error">>
    ELSE IF outcome.kind = "status" THEN <<"API Hatasi: 500">>
    ELSE IF outcome.kind = "not_json" THEN <<"Hata: error">>
    ELSE IF outcome.kind = "choices" THEN <<outcome.content>>
    ELSE NoAnswer

\* lines 207-273 (called from query_with_context, line 98)
CallApi ==
    /\ qphase = "idle"
    /\ answer' = ApiReturn(api_outcome)
    /\ qphase' = "answered"
    /\ UNCHANGED <<request, vector_results, api_outcome, all_elements_data,
                   code_elements, references, http_status, query_error>>
    /\ UNCHANGED exceptQry

\* the answer sought in the name
CitedReversed(element_name_lower, response_lower) ==
    element_name_lower # <<>> /\ Contains(response_lower, element_name_lower)

\* line 291: if element_name_lower and element_name_lower in response_lower
Cited(element_name_lower, response_lower) ==
    element_name_lower # <<>> /\ Contains(element_name_lower, response_lower)

\* lines 292-297: the reference of an element
Reference(element) ==
    [file |-> element.file_path, element |-> element.name, type |-> element.type,
     lines |-> <<element.start_line, element.end_line>>]

\* lines 286-297: the loop over code_elements from the i-th on
RECURSIVE ReferencesLoop(_, _, _, _)
ReferencesLoop(elems, response_lower, i, refs) ==
    IF i > Len(elems) THEN refs
    ELSE ReferencesLoop(elems, response_lower, i + 1,
                        IF Cited(LowerText(Chars(elems[i].name)), response_lower)
                        THEN Append(refs, Reference(elems[i])) ELSE refs)

\* lines 275-299: extract_references_from_response(question, code_elements, response)
ExtractReferencesFromResponse(elems, response) ==
    ReferencesLoop(elems, LowerText(Chars(response)), 1, <<>>)

\* main.py lines 424-441, llm_client.py lines 275-299: the answer is logged and the
\* references are extracted from it; None has no slice and no lower()
ExtractReferences ==
    /\ qphase = "answered"
    /\ IF answer = NoAnswer
         THEN /\ query_error' = "TypeError"
              /\ qphase' = "raised"
              /\ UNCHANGED references
         ELSE /\ references' = ExtractReferencesFromResponse(code_elements, answer[1])
              /\ qphase' = "extracted"
              /\ UNCHANGED query_error
    /\ UNCHANGED <<request, vector_results, api_outcome, all_elements_data,
                   code_elements, answer, http_status>>
    /\ UNCHANGED exceptQry

(***************************************************************************)
(* query_project (main.py)                                                 *)
(***************************************************************************)
\* models.py lines 35-39: the fields of QueryRequest; pydantic drops what else the
\* body of the request carries
QueryRequestFields == {"project_id", "question", "include_snippets"}

\* reading request.<field>: AttributeError for what is no field
HasField(req, field) == field \in DOMAIN req

\* indexer.py line 322: the parameters of search_elements
SearchElementsParams == {"project_id", "query"}

\* main.py lines 299-457: how query_project ends.  Line 331 reads
\* request.chat_history; the similarity branch reads relevant_elements at line 383,
\* a name only the fallback branch binds; the fallback branch reads
\* request.search_mode and calls search_elements with the keywords search_mode
\* and previous_elements (lines 357-362).  Every exception but HTTPException
\* becomes status 400 (lines 455-457).
QueryOutcome(req, vec) ==
    IF req.project_id \notin DOMAIN projects
    THEN [status |-> 404, error |-> "HTTPException"]
    ELSE IF ~HasField(req, "chat_history")
    THEN [status |-> 400, error |-> "AttributeError"]
    ELSE IF vec # <<>>
    THEN [status |-> 400, error |-> "NameError"]
    ELSE IF ~HasField(req, "search_mode")
    THEN [status |-> 400, error |-> "AttributeError"]
    ELSE IF ~({"search_mode", "previous_elements"} \subseteq SearchElementsParams)
    THEN [status |-> 400, error |-> "TypeError"]
    ELSE [status |-> 200, error |-> "None"]

\* lines 363-370: the first five matches of the keyword search, each at depth 0
KeywordCandidates(req) ==
    LET relevant_elements ==
            SearchLoop(projects[req.project_id].elements,
                       LowerText(Chars(req.question)), 1, <<>>)
        first == SubSeq(relevant_elements, 1, Min(5, Len(relevant_elements)))
    IN  [i \in 1..Len(first) |-> [metadata |-> first[i], depth |-> 0]]

\* lines 299-457: query_project(request)
QueryProject ==
    /\ qphase = "idle"
    /\ qphase' = "done"
    /\ LET outcome == QueryOutcome(request, vector_results)
           response == ApiReturn(api_outcome)
       IN  IF outcome.status # 200
           THEN /\ http_status' = outcome.status
                /\ query_error' = outcome.error
                /\ UNCHANGED <<all_elements_data, answer, references>>
           ELSE /\ all_elements_data' = KeywordCandidates(request)
                /\ answer' = response
                /\ IF response = NoAnswer
                     THEN /\ http_status' = 400
                          /\ query_error' = "TypeError"
                          /\ UNCHANGED references
                     ELSE /\ http_status' = 200
                          /\ query_error' = "None"
                          /\ references' = ExtractReferencesFromResponse(
                                [i \in 1..Len(KeywordCandidates(request)) |->
                                    KeywordCandidates(request)[i].metadata],
                                response[1])
    /\ UNCHANGED <<request, vector_results, api_outcome, code_elements>>
    /\ UNCHANGED exceptQry

(***************************************************************************)
(* Inputs and construction values                                          *)
(***************************************************************************)
\* the snippets a list is drawn from: the two synthesized blocks and two code
\* snippets, of serialized sizes 93, 110, 100 and 50
SnippetPool ==
    { [file_path |-> "PROJECT_METADATA", start_line |-> 1, end_line |-> 1, codeLen |-> 40],
      [file_path |-> "ELEMENTS_SUMMARY", start_line |-> 1, end_line |-> 1, codeLen |-> 57],
      [file_path |-> "a.py", start_line |-> 1, end_line |-> 9, codeLen |-> 59],
      [file_path |-> "src/b.py", start_line |-> 10, end_line |-> 12, codeLen |-> 3] }

SnippetLists == UNION {[1..n -> SnippetPool] : n \in 0..MaxSnippets}

\* character budgets: none, tight ones, and the 8000 of query_project
CharBudgets == {0, 100, 150, 250, 8000}

\* context_length: a small window, and the default 4096
TokenLimits == {200, 4096}

\* len(question)
QuestionLens == {8, 400}

\* chat_history: None or empty, one message, four messages with a long one
Histories ==
    { <<>>,
      <<[role |-> "user", contentLen |-> 20]>>,
      <<[role |-> "user", contentLen |-> 20], [role |-> "assistant", contentLen |-> 300],
        [role |-> "user", contentLen |-> 5], [role |-> "assistant", contentLen |-> 60]>> }

\* the files a directory listing is drawn from
FilePool ==
    { [name |-> "a.py", fault |-> "none", text |-> "def foo"],
      [name |-> "a.py", fault |-> "none", text |-> "def foo; class Bar"],
      [name |-> "B.PY", fault |-> "none", text |-> "class Bar"],
      [name |-> "c.java", fault |-> "extract", text |-> "class Bar"],
      [name |-> "d.py", fault |-> "read", text |-> "def foo"],
      [name |-> "e.bin", fault |-> "none", text |-> "def foo"],
      [name |-> "s.css", fault |-> "none", text |-> "class Bar"] }

\* the listings of at most n files, no two of one name
Listings(n) ==
    {l \in UNION {[1..k -> FilePool] : k \in 0..n} :
        \A i, j \in 1..Len(l) : i # j => l[i].name # l[j].name}

\* the locals of index_project before any call
IdxLocals ==
    /\ project_path = "proj"
    /\ project_id = "None"
    /\ elements = <<>>
    /\ languages_set = {}
    /\ total_files = 0
    /\ supported_files = 0
    /\ todo = <<>>
    /\ returned = NoReturn
    /\ iphase = "idle"
    /\ dirty = [p \in Paths |-> FALSE]
    /\ cleanStart = FALSE
    /\ passes = 0
    /\ changes = 0

\* no index_project call under way, the trees empty
IdxIdle ==
    /\ fs = [p \in Paths |-> <<>>]
    /\ IdxLocals

IdxStart ==
    /\ projects = <<>>
    /\ indexer_snippets = <<>>
    /\ IdxLocals

\* the indexer as constructed, over an empty tree
IdxConstructed ==
    /\ fs = [p \in Paths |-> <<>>]
    /\ IdxStart

DepsStart ==
    /\ metaDeps = <<>>
    /\ nearest = <<>>
    /\ visited = {}
    /\ result = <<>>
    /\ stack = <<>>
    /\ dphase = "idle"

\* no search made
SrchConstructed ==
    /\ search_pid = "None"
    /\ search_query = ""
    /\ search_results = <<>>
    /\ sphase = "idle"

\* no extraction made
ExtConstructed ==
    /\ lines = <<[indent |-> 0, text |-> ""]>>
    /\ file_language = "python"
    /\ line_no = 0
    /\ extracted = <<>>
    /\ xphase = "idle"

\* no file handed to the extractors
TierStart ==
    /\ nodes_todo = <<>>
    /\ walked = <<>>
    /\ tier = "none"

TierConstructed ==
    /\ file_name = "a.py"
    /\ parsers = {}
    /\ parse_fault = "none"
    /\ TierStart

\* no similarity search made
StoreConstructed ==
    /\ n_results = 10
    /\ collection_answer = [raises |-> FALSE, names |-> <<>>]
    /\ vphase = "idle"

\* no dependencies extracted
EdgeConstructed ==
    /\ dep_code = <<>>
    /\ dep_language = "python"
    /\ dependencies = {}
    /\ ephase = "idle"

\* no query made
QryStart ==
    /\ all_elements_data = <<>>
    /\ answer = NoAnswer
    /\ references = <<>>
    /\ http_status = 0
    /\ query_error = "None"
    /\ qphase = "idle"

QryConstructed ==
    /\ request = [project_id |-> "None", question |-> "", include_snippets |-> TRUE]
    /\ vector_results = <<>>
    /\ api_outcome = [kind |-> "connection", content |-> ""]
    /\ code_elements = <<>>
    /\ QryStart

\* no collection of the project, nothing asked
DepsConstructed ==
    /\ hasCollection = FALSE
    /\ exact = FALSE
    /\ element_name = "S"
    /\ DepsStart

CtxStart ==
    /\ context = NoText
    /\ prompt = NoPrompt
    /\ tokenWarning = FALSE
    /\ cphase = "idle"

\* no query under way
CtxConstructed ==
    /\ code_snippets = <<>>
    /\ max_context_chars = 8000
    /\ max_context_tokens = 4096
    /\ question = 0
    /\ chat_history = <<>>
    /\ CtxStart

\* a call with any seed, on a project with or without a persisted collection,
\* whose lookups are exact or nearest-neighbour
InitDeps ==
    /\ hasCollection \in BOOLEAN
    /\ exact \in BOOLEAN
    /\ element_name \in Names
    /\ DepsStart
    /\ CtxConstructed
    /\ IdxConstructed
    /\ SrchConstructed
    /\ QryConstructed
    /\ ExtConstructed
    /\ TierConstructed
    /\ StoreConstructed
    /\ EdgeConstructed

\* a query_with_context call with any snippet list, budgets, question and history
InitContext ==
    /\ code_snippets \in SnippetLists
    /\ max_context_chars \in CharBudgets
    /\ max_context_tokens \in TokenLimits
    /\ question \in QuestionLens
    /\ chat_history \in Histories
    /\ CtxStart
    /\ DepsConstructed
    /\ IdxConstructed
    /\ SrchConstructed
    /\ QryConstructed
    /\ ExtConstructed
    /\ TierConstructed
    /\ StoreConstructed
    /\ EdgeConstructed

\* the tree under the second project path as the run begins
OtherTree == <<[name |-> "B.PY", fault |-> "none", text |-> "class Bar"]>>

\* the indexer as constructed, over any directory tree of the first project path
InitIndex ==
    /\ fs \in [Paths -> Listings(MaxFiles)]
    /\ fs["other"] = OtherTree
    /\ IdxStart
    /\ DepsConstructed
    /\ CtxConstructed
    /\ SrchConstructed
    /\ QryConstructed
    /\ ExtConstructed
    /\ TierConstructed
    /\ StoreConstructed
    /\ EdgeConstructed

\* the elements a registered ProjectIndex is drawn from, as the extractors make
\* them
ElementPool ==
    { [name |-> "foo", type |-> "function", file_path |-> <<"a.py">>, start_line |-> 1,
       end_line |-> 3, language |-> "python", signature |-> "def foo():"],
      [name |-> "Bar", type |-> "class", file_path |-> <<"a.py">>, start_line |-> 4,
       end_line |-> 9, language |-> "python", signature |-> "class Bar:"],
      [name |-> "fooBar", type |-> "function", file_path |-> <<"d.py">>,
       start_line |-> 1, end_line |-> 2, language |-> "python",
       signature |-> "def fooBar():"],
      [name |-> "run", type |-> "function", file_path |-> <<"d.py">>, start_line |-> 3,
       end_line |-> 5, language |-> "python", signature |-> "def run(foo):"] }

StoredLists(n) == UNION {[1..k -> ElementPool] : k \in 0..n}

FilePathsOf(stored) == {stored[i].file_path : i \in 1..Len(stored)}

\* the ProjectIndex of "proj" whose elements are stored
IndexWith(stored) ==
    [project_id |-> ProjectId("proj"),
     total_files |-> Cardinality(FilePathsOf(stored)),
     supported_files |-> Cardinality(FilePathsOf(stored)),
     languages |-> IF stored = <<>> THEN <<>> ELSE <<"python">>,
     elements |-> stored]

\* the registries: nothing indexed, or "proj" indexed
Registries ==
    {<<>>} \cup {ProjectId("proj") :> IndexWith(stored) : stored \in StoredLists(MaxElements)}

\* the stored texts that go with a registry
TextsOf(registry) ==
    [pid \in DOMAIN registry |->
        [p \in FilePathsOf(registry[pid].elements) |-> "def foo; class Bar"]]

\* the queries of a search, and the project ids: the one of "proj" and one never
\* indexed
SearchQueries == {"", "foo", "Foo", "BAR", "zip", "(f"}
SearchIds == {ProjectId("proj"), ProjectId("other")}

\* an indexer with any registry, before a search
InitSearch ==
    /\ projects \in Registries
    /\ indexer_snippets = TextsOf(projects)
    /\ IdxIdle
    /\ SrchConstructed
    /\ DepsConstructed
    /\ CtxConstructed
    /\ QryConstructed
    /\ ExtConstructed
    /\ TierConstructed
    /\ StoreConstructed
    /\ EdgeConstructed

NextSearch == \E pid \in SearchIds, query \in SearchQueries : SearchElements(pid, query)

SpecSearch == InitSearch /\ [][NextSearch]_vars

\* how the call of the language model may end: the kinds of failure, and a 200
\* response with a text, without "choices" or with an empty list of them
AnswerTexts == {"", "FOO", "foobar", "zip"}
ApiOutcomes ==
    {[kind |-> k, content |-> ""] :
        k \in {"timeout", "connection", "exception", "status", "not_json",
               "no_choices", "empty_choices"}}
    \cup {[kind |-> "choices", content |-> t] : t \in AnswerTexts}

\* a language-model call with any outcome, and any candidates for the extraction
InitAnswer ==
    /\ api_outcome \in ApiOutcomes
    /\ code_elements \in StoredLists(MaxElements)
    /\ request = [project_id |-> ProjectId("proj"), question |-> "foo",
                  include_snippets |-> TRUE]
    /\ vector_results = <<>>
    /\ QryStart
    /\ IdxConstructed
    /\ SrchConstructed
    /\ DepsConstructed
    /\ CtxConstructed
    /\ ExtConstructed
    /\ TierConstructed
    /\ StoreConstructed
    /\ EdgeConstructed

NextAnswer ==
    \/ CallApi
    \/ ExtractReferences

SpecAnswer == InitAnswer /\ [][NextAnswer]_vars

\* what the similarity search may return for a question: the names found
VectorResults == {<<>>, <<"foo">>, <<"Bar", "foo">>}

\* a query of any registry, for either project id, with any question
InitQuery ==
    /\ projects \in Registries
    /\ indexer_snippets = TextsOf(projects)
    /\ request \in [project_id : SearchIds, question : SearchQueries,
                    include_snippets : {TRUE}]
    /\ DOMAIN request = QueryRequestFields
    /\ vector_results \in VectorResults
    /\ api_outcome \in ApiOutcomes
    /\ code_elements = <<>>
    /\ QryStart
    /\ IdxIdle
    /\ SrchConstructed
    /\ DepsConstructed
    /\ CtxConstructed
    /\ ExtConstructed
    /\ TierConstructed
    /\ StoreConstructed
    /\ EdgeConstructed

NextQuery == QueryProject

SpecQuery == InitQuery /\ [][NextQuery]_vars

\* the lines a source text is drawn from
LinePool ==
    { [indent |-> 0, text |-> ""], [indent |-> 4, text |-> ""],
      [indent |-> 0, text |-> "# note"],
      [indent |-> 0, text |-> "x = 1"], [indent |-> 4, text |-> "x = 1"],
      [indent |-> 0, text |-> "def f():"], [indent |-> 4, text |-> "def f():"],
      [indent |-> 0, text |-> "class A:"],
      [indent |-> 0, text |-> "function g() {"],
      [indent |-> 0, text |-> "class B { m() {"] }

\* what code.split("\n") gives for the texts of at most n lines: never the empty
\* list
SourceTexts(n) == UNION {[1..k -> LinePool] : k \in 1..n}

PatternLanguages == {"python", "javascript", "java"}

\* a file name of the language
FileOf(lang) ==
    IF lang = "python" THEN "a.py" ELSE IF lang = "java" THEN "c.java" ELSE "m.js"

\* the pattern tier of an extractor handed any text of any of its languages
InitExtract ==
    /\ lines \in SourceTexts(MaxLines)
    /\ file_language \in PatternLanguages
    /\ line_no = 0
    /\ extracted = <<>>
    /\ xphase = "idle"
    /\ file_name = FileOf(file_language)
    /\ parsers = {}
    /\ parse_fault = "none"
    /\ TierStart
    /\ IdxConstructed
    /\ SrchConstructed
    /\ QryConstructed
    /\ DepsConstructed
    /\ CtxConstructed
    /\ StoreConstructed
    /\ EdgeConstructed

NextExtract ==
    \/ ExtractElements
    \/ ScanLine
    \/ ExtractReturn

SpecExtract == InitExtract /\ [][NextExtract]_vars

\* the names and the texts of the files handed to the extraction
FileNames == {"a.py", "B.PY", "m.js", "t.ts", "c.java", "s.css", "e.bin"}
FileTexts == {Def1, ClassDef, Plain, DefThenPlain, Script}

\* how the structural attempt may end: it returns, the parser raises, the tree
\* walk raises
ParseFaults == {"none", "parse", "walk"}

\* one file of any name and text met by an indexer with any set of parsers
InitFile ==
    /\ file_name \in FileNames
    /\ lines \in FileTexts
    /\ parsers \in ParserSets
    /\ parse_fault \in ParseFaults
    /\ file_language = NoLanguage
    /\ line_no = 0
    /\ extracted = <<>>
    /\ xphase = "idle"
    /\ TierStart
    /\ IdxConstructed
    /\ SrchConstructed
    /\ QryConstructed
    /\ DepsConstructed
    /\ CtxConstructed
    /\ StoreConstructed
    /\ EdgeConstructed

NextFile ==
    \/ ExtractFile
    \/ WalkNode
    \/ WalkRaises
    \/ StructuralReturn
    \/ ScanLine
    \/ ExtractReturn

SpecFile == InitFile /\ [][NextFile]_vars

\* the dependencies metadata of a persisted collection of two elements
StoredDeps == ("A" :> <<"B", "S">>) @@ ("B" :> <<"A">>)

\* the rankings collection.query may give of them, nearest first
Rankings == {<<"A", "B">>, <<"B", "A">>}

\* n_results: one, and the 5 of query_project
ResultCounts == {1, 5}

\* a project with or without a persisted collection, before a similarity search
\* and an expansion from any seed
InitStore ==
    /\ hasCollection \in BOOLEAN
    /\ exact = FALSE
    /\ element_name \in Names
    /\ metaDeps = IF hasCollection THEN StoredDeps ELSE <<>>
    /\ nearest = <<>>
    /\ visited = {}
    /\ result = <<>>
    /\ stack = <<>>
    /\ dphase = "idle"
    /\ n_results \in ResultCounts
    /\ collection_answer \in
          IF hasCollection
          THEN {[raises |-> TRUE, names |-> <<>>]}
                  \cup {[raises |-> FALSE, names |-> r] : r \in Rankings}
          ELSE {[raises |-> FALSE, names |-> <<>>]}
    /\ vphase = "idle"
    /\ QryConstructed
    /\ CtxConstructed
    /\ IdxConstructed
    /\ SrchConstructed
    /\ ExtConstructed
    /\ TierConstructed
    /\ EdgeConstructed

\* the tokens a snippet text is drawn from
TokenPool == {"foo", "run", "if", "print", "(", ")", " ", "."}

\* the texts of at most n tokens: two words, or two runs of white space, never
\* stand side by side
TokenTexts(n) ==
    {t \in UNION {[1..k -> TokenPool] : k \in 0..n} :
        \A i \in 1..(Len(t) - 1) :
            /\ ~(IsWord(t[i]) /\ IsWord(t[i + 1]))
            /\ ~(t[i] = " " /\ t[i + 1] = " ")}

\* elem.language of an element: the languages that have an extractor
ElementLanguages == {"python", "javascript", "typescript", "java"}

\* the snippet of any element, before its dependencies are extracted
InitEdges ==
    /\ dep_code \in TokenTexts(MaxTokens)
    /\ dep_language \in ElementLanguages
    /\ dependencies = {}
    /\ ephase = "idle"
    /\ DepsConstructed
    /\ CtxConstructed
    /\ IdxConstructed
    /\ SrchConstructed
    /\ QryConstructed
    /\ ExtConstructed
    /\ TierConstructed
    /\ StoreConstructed

NextEdges == ExtractDependenciesStep

SpecEdges == InitEdges /\ [][NextEdges]_vars

NextDeps ==
    \/ GetElementWithDependencies
    \/ RecurseEnter
    \/ RecurseLoop
    \/ ReturnResult

NextContext ==
    \/ BuildContextStep
    \/ BuildPromptStep

SpecDeps == InitDeps /\ [][NextDeps]_vars
\* a call under way goes on: nothing in it waits
FairSpecDeps == SpecDeps /\ WF_vars(NextDeps)
SpecContext == InitContext /\ [][NextContext]_vars

\* query_project line 338 and lines 346-351: the search, then the expansion
NextStore ==
    \/ Search
    \/ (vphase = "searched" /\ NextDeps)

SpecStore == InitStore /\ [][NextStore]_vars

NextIndex ==
    \/ \E path \in Paths : StartIndex(path)
    \/ VisitFile
    \/ FinishIndex
    \/ \E path \in Paths, f \in FilePool : WriteFile(path, f)
    \/ \E path \in Paths, i \in 1..MaxFiles : RemoveFile(path, i)

SpecIndex == InitIndex /\ [][NextIndex]_vars

\* the queries of the searches made while projects are indexed
PublishQueries == {"", "foo", "BAR"}

\* index_project calls, and a search_elements call at any point between their
\* steps
NextPublish ==
    \/ \E path \in Paths : StartIndex(path)
    \/ VisitFile
    \/ FinishIndex
    \/ \E pid \in SearchIds, query \in PublishQueries : SearchElements(pid, query)

SpecPublish == InitIndex /\ [][NextPublish]_vars

(***************************************************************************)
(* Properties of the dependency-closure expansion                          *)
(***************************************************************************)
\* how often element e stands in the result
Count(e) == Cardinality({i \in 1..Len(result) : result[i].name = e})

\* the dependency list of e as far as the call has read it
KnownDeps(e) == IF e \in DOMAIN metaDeps THEN metaDeps[e] ELSE <<>>

\* the collection holds the cycle a -> b -> c -> a and the seed is a
OnCycle3(a, b, c) ==
    /\ a # b /\ b # c /\ a # c
    /\ KnownDeps(a) = <<b>> /\ KnownDeps(b) = <<c>> /\ KnownDeps(c) = <<a>>
    /\ element_name = a

CycleOnce ==
    \A a, b, c \in Names :
        (dphase = "done" /\ hasCollection /\ exact /\ OnCycle3(a, b, c))
            => (Count(a) = 1 /\ Count(b) = 1 /\ Count(c) = 1 /\ Len(result) = 3)

\* C1: for every collection (any dependency lists, self-references and cycles
\* included, exact or nearest-neighbour answers) and every seed the expansion
\* terminates; and under exact lookup, from a seed on a 3-node cycle
\* a -> b -> c -> a with max_depth = 2, the result holds a, b and c once each.
C1_Terminates == <>(dphase = "done") /\ []CycleOnce

\* a finished expansion of an exact-lookup 3-node cycle
C1_Witness ==
    /\ dphase = "done" /\ hasCollection /\ exact
    /\ \E a, b, c \in Names : OnCycle3(a, b, c)
    /\ Len(result) = 3

\* the elements within k dependency edges of the seed, by the dependency lists
\* the call has read
RECURSIVE Within(_)
Within(k) ==
    IF k = 0 THEN {element_name}
    ELSE LET W == Within(k - 1)
         IN  W \cup UNION {{KnownDeps(e)[i] : i \in 1..Len(KnownDeps(e))} : e \in W}

InResult == {result[i].name : i \in 1..Len(result)}

\* C2 (as claimed): under exact lookup the finished expansion holds every element
\* within max_depth dependency edges of the seed, whatever the order of the
\* dependency lists.
C2_FullClosure ==
    (dphase = "done" /\ hasCollection /\ exact)
        => Within(MaxDepth) \subseteq InResult

\* C3 (as claimed): no element stands in the finished result more than once, also
\* when a name lookup answers with a nearest neighbour of another name.
C3_NoDuplicates ==
    dphase = "done" => \A e \in Names : Count(e) <= 1

\* the names in the dependency list of e as far as the call has read it
KnownDepSet(e) == {KnownDeps(e)[i] : i \in 1..Len(KnownDeps(e))}

\* C30 (as claimed): in the finished result the first candidate is the seed with
\* depth 0, every candidate has a depth in 0..max_depth, and every candidate
\* with a depth d > 0 is a dependency of a candidate with depth d - 1 that
\* stands before it.
C30_DepthsAndParents ==
    dphase = "done" =>
        /\ result # <<>> => (result[1].name = element_name /\ result[1].depth = 0)
        /\ \A j \in 1..Len(result) : result[j].depth \in 0..MaxDepth
        /\ \A j \in 1..Len(result) :
              result[j].depth > 0 =>
                  \E i \in 1..(j - 1) :
                      /\ result[i].depth = result[j].depth - 1
                      /\ result[j].name \in KnownDepSet(result[i].name)

(***************************************************************************)
(* Properties of the context budgeter and the prompt builder               *)
(***************************************************************************)
\* the indexes of the snippets in the returned context
Included == {context.parts[k] : k \in 1..Len(context.parts)}

NonExempt == {i \in 1..Len(code_snippets) : ~IsExempt(code_snippets[i])}

RECURSIVE SizeSum(_)
\* the serialized sizes of the snippets with indexes in I, summed
SizeSum(I) ==
    IF I = {} THEN 0
    ELSE LET i == CHOOSE x \in I : TRUE
         IN  SnippetSize(code_snippets[i]) + SizeSum(I \ {i})

\* C4: the returned context is never longer than max_context_chars plus the
\* serialized sizes of the PROJECT_METADATA / ELEMENTS_SUMMARY blocks in it.
C4_Bound ==
    cphase # "idle" =>
        context.len <= max_context_chars + SizeSum(Included \ NonExempt)

\* a context longer than the budget, with a code snippet and an exempt block in it
C4_Witness ==
    /\ cphase # "idle"
    /\ context.len > max_context_chars
    /\ Included \cap NonExempt # {}
    /\ Included \ NonExempt # {}

\* the serialized size of the non-exempt snippets up to and including snippet j
OwnSizeUpTo(j) == SizeSum({i \in NonExempt : i <= j})

\* the serialized size of all snippets up to and including snippet j
RunningTotalUpTo(j) == SizeSum(1..j)

ThreeOfSize100 ==
    /\ Len(code_snippets) = 3
    /\ \A i \in 1..3 : ~IsExempt(code_snippets[i]) /\ SnippetSize(code_snippets[i]) = 100
    /\ max_context_chars = 150

C6_ExemptAlwaysIncluded ==
    cphase # "idle" =>
        \A i \in 1..Len(code_snippets) :
            IsExempt(code_snippets[i]) => i \in Included

C27_ExemptNotCharged ==
    cphase # "idle" =>
        \A j \in NonExempt :
            j \in Included <=> OwnSizeUpTo(j) <= max_context_chars

(***************************************************************************)
(* Properties of the project index                                         *)
(***************************************************************************)
\* C8: whatever index_project calls were made (a first one, one of the same path
\* again, one of another path), get_code_snippet finds the text of every element
\* of every registered ProjectIndex: its file_path is a key of the stored texts.
C8_ElementsHaveText ==
    \A pid \in DOMAIN projects :
        \A i \in 1..Len(projects[pid].elements) :
            LET e == projects[pid].elements[i]
            IN  GetCodeSnippet(pid, e.file_path, e.start_line, e.end_line) # NoSnippet

\* a path indexed a second time after its files changed, with elements
C8_Witness ==
    /\ iphase = "idle"
    /\ passes >= 2
    /\ changes >= 1
    /\ cleanStart = FALSE
    /\ project_id \in DOMAIN projects
    /\ returned.status = "ok"
    /\ Len(projects[project_id].elements) >= 2

\* the files of the path last indexed, when none changed since that walk began
WalkedFiles == fs[project_path]

Supported(file) == DetectLanguage(file.name) # NoLanguage

LastCallDone == iphase = "idle" /\ passes > 0 /\ ~dirty[project_path]

\* C9: a file that cannot be read, or whose extraction raises, does not abort
\* index_project: the call returns a ProjectIndex, which counts that file in
\* supported_files, holds no element of it, and holds the elements of every
\* other file.
C9_FailureSkipsFile ==
    LastCallDone =>
        /\ returned.status = "ok"
        /\ returned.project_index = projects[project_id]
        /\ returned.project_index.supported_files =
              Cardinality({i \in 1..Len(WalkedFiles) : Supported(WalkedFiles[i])})
        /\ \A i \in 1..Len(WalkedFiles) :
              LET file == WalkedFiles[i]
                  found == {returned.project_index.elements[k] :
                                k \in 1..Len(returned.project_index.elements)}
                  own == {e \in found : e.file_path = <<file.name>>}
                  expected == FileElements(file.text, <<file.name>>,
                                           DetectLanguage(file.name))
              IN  IF file.fault # "none"
                  THEN own = {}
                  ELSE own = {expected[k] : k \in 1..Len(expected)}

\* a failing file walked first, and the elements of the file after it indexed
C9_Witness ==
    /\ LastCallDone
    /\ returned.status = "ok"
    /\ Len(WalkedFiles) = 2
    /\ Supported(WalkedFiles[1])
    /\ WalkedFiles[1].fault # "none"
    /\ \E k \in 1..Len(returned.project_index.elements) :
          returned.project_index.elements[k].file_path = <<WalkedFiles[2].name>>

\* C10: an index_project call on a path that was indexed before and whose
\* directory is unchanged since returns the project id and the ProjectIndex
\* (elements, total_files, supported_files, languages) of the call before.
C10_Idempotent ==
    [][(iphase = "walking" /\ iphase' = "idle" /\ cleanStart)
          => /\ returned'.status = "ok"
             /\ returned'.project_id = projects[project_id].project_id
             /\ returned'.project_index = projects[project_id]
             /\ projects'[project_id] = projects[project_id]]_vars

\* a second call on an unchanged path has returned, with several elements, files
\* of several kinds behind it
C10_Witness ==
    /\ iphase = "idle"
    /\ cleanStart
    /\ returned.status = "ok"
    /\ returned.project_index.total_files = 2
    /\ returned.project_index.supported_files = 1
    /\ Len(returned.project_index.elements) >= 2

\* the extension of the file is no key of ext_map
Unlisted(file) == Lower(Suffix(file.name)) \notin DOMAIN ExtMap

\* the step of index_project that visits a file of an extension outside ext_map
VisitsUnlisted == iphase = "walking" /\ todo # <<>> /\ Unlisted(Head(todo))

\* C11: a visited file whose extension is not in the extension table adds one to
\* total_files and leaves supported_files, the language set, the stored texts and
\* the elements as they are; and supported_files <= total_files in every
\* ProjectIndex produced.
C11_UnlistedOnlyCounted ==
    /\ [][VisitsUnlisted =>
            /\ total_files' = total_files + 1
            /\ supported_files' = supported_files
            /\ languages_set' = languages_set
            /\ indexer_snippets' = indexer_snippets
            /\ elements' = elements
            /\ iphase' = "walking"]_vars
    /\ [](\A pid \in DOMAIN projects :
            projects[pid].supported_files <= projects[pid].total_files)
    /\ [](returned.project_index.supported_files <= returned.project_index.total_files)

\* an index produced from a tree with a file outside the table after a file with
\* elements
C11_Witness ==
    /\ LastCallDone
    /\ returned.status = "ok"
    /\ Len(WalkedFiles) = 2
    /\ ~Unlisted(WalkedFiles[1])
    /\ Unlisted(WalkedFiles[2])
    /\ returned.project_index.total_files = 2
    /\ returned.project_index.supported_files = 1
    /\ Len(returned.project_index.elements) = 2

\* the relative paths of the files the last call read
ReadPaths ==
    {<<WalkedFiles[i].name>> : i \in {k \in 1..Len(WalkedFiles) :
        Supported(WalkedFiles[k]) /\ WalkedFiles[k].fault # "read"}}

\* the paths the raw-text store holds for a project id
StoredPaths(pid) ==
    IF pid \in DOMAIN indexer_snippets THEN DOMAIN indexer_snippets[pid] ELSE {}

\* C28 (as claimed): after every completed index_project call (a re-index after
\* files were removed and a project without a supported file included) the
\* raw-text store of the project id holds the files that call read and no other:
\* no entry of an earlier call is left.
C28_StoreInStep ==
    (LastCallDone /\ returned.status = "ok")
        => StoredPaths(project_id) = ReadPaths

(***************************************************************************)
(* Properties of the keyword search                                        *)
(***************************************************************************)
\* two characters are one letter, case apart
SameLetter(a, b) ==
    \/ a = b
    \/ \E i \in 1..Len(UpperLetters) : {a, b} = {UpperLetters[i], LowerLetters[i]}

\* needle occurs in hay, case apart
OccursIgnoringCase(needle, hay) ==
    \E k \in 0..(Len(hay) - Len(needle)) :
        \A j \in 1..Len(needle) : SameLetter(needle[j], hay[k + j])

\* the places of the stored elements whose name or signature has the query in it
MatchPlaces(stored, query) ==
    {i \in 1..Len(stored) :
        \/ OccursIgnoringCase(Chars(query), Chars(stored[i].name))
        \/ OccursIgnoringCase(Chars(query), Chars(stored[i].signature))}

SearchReturned == sphase = "returned" /\ search_pid \in DOMAIN projects

\* C12: search_elements returns exactly the elements of projects[pid].elements
\* whose name or signature contains the query, case apart, in the stored order;
\* the query "Foo" finds an element named "fooBar".
C12_SearchIsOrderedFilter ==
    SearchReturned =>
        LET stored == projects[search_pid].elements
            places == MatchPlaces(stored, search_query)
        IN  /\ Len(search_results) = Cardinality(places)
            /\ \E f \in [1..Len(search_results) -> places] :
                  /\ \A k \in 1..Len(search_results) : search_results[k] = stored[f[k]]
                  /\ \A k, l \in 1..Len(search_results) : k < l => f[k] < f[l]
            /\ search_query = "Foo" =>
                  \A i \in 1..Len(stored) :
                      stored[i].name = "fooBar" =>
                          \E k \in 1..Len(search_results) : search_results[k] = stored[i]

\* the search for "Foo" over three elements found fooBar and left one out
C12_Witness ==
    /\ SearchReturned
    /\ search_query = "Foo"
    /\ Len(projects[search_pid].elements) = 3
    /\ Len(search_results) = 2
    /\ \E k \in 1..2 : search_results[k].name = "fooBar"

\* C13: search_elements with a project id that was never indexed returns the empty
\* sequence, raises nothing, and leaves the registry and the stored texts as they
\* are.
C13_UnknownProjectEmpty ==
    [][(sphase = "idle" /\ sphase' # "idle" /\ search_pid' \notin DOMAIN projects)
          => /\ sphase' = "returned"
             /\ search_results' = <<>>
             /\ projects' = projects
             /\ indexer_snippets' = indexer_snippets]_vars

\* a search of an id never indexed, for a query another project has matches of
C13_Witness ==
    /\ sphase = "returned"
    /\ search_pid \notin DOMAIN projects
    /\ search_results = <<>>
    /\ \E pid \in DOMAIN projects : MatchPlaces(projects[pid].elements, search_query) # {}

\* the elements of a list that have the query in their name or signature, case
\* apart, in the order of the list
OrderedMatches(stored, query) ==
    SelectSeq(stored, LAMBDA e :
        \/ OccursIgnoringCase(Chars(query), Chars(e.name))
        \/ OccursIgnoringCase(Chars(query), Chars(e.signature)))

\* a step of an index_project call that changes the registry
Publishes == projects' # projects

\* a search_elements call
Searches == sphase = "idle" /\ sphase' # "idle"

\* C29: the element list of a project is published in one step: the registry
\* changes only as an index_project call ends, and then the entry of its project
\* id gets the complete list of that call; a search_elements call made at any
\* point of an index_project call returns nothing for an id without an entry, and
\* else the matches of the list of the entry, never those of the list a call
\* under way is building.
C29_AtomicPublish ==
    /\ [][Publishes =>
            /\ iphase = "walking" /\ todo = <<>> /\ iphase' = "idle"
            /\ DOMAIN projects' = DOMAIN projects \cup {project_id}
            /\ projects'[project_id].elements = elements
            /\ \A pid \in DOMAIN projects \ {project_id} : projects'[pid] = projects[pid]]_vars
    /\ [][Searches =>
            /\ sphase' = "returned"
            /\ search_results' =
                  IF search_pid' \in DOMAIN projects
                  THEN OrderedMatches(projects[search_pid'].elements, search_query')
                  ELSE <<>>]_vars

\* a search has returned the matches of the list of the last call, while the list
\* the call under way on the project has built so far gives other matches
C29_Witness ==
    /\ sphase = "returned"
    /\ iphase = "walking"
    /\ search_pid = project_id
    /\ search_pid \in DOMAIN projects
    /\ elements # <<>>
    /\ search_results = OrderedMatches(projects[search_pid].elements, search_query)
    /\ search_results # OrderedMatches(elements, search_query)

(***************************************************************************)
(* Properties of the query and of the answer                               *)
(***************************************************************************)
\* the query was of an indexed project
QueryOfIndexed == qphase = "done" /\ request.project_id \in DOMAIN projects

\* the candidates the keyword mode is to give: the matches of the substring search
\* for the question, each at depth 0
KeywordModeCandidates ==
    LET stored == projects[request.project_id].elements
        places == MatchPlaces(stored, request.question)
    IN  {[metadata |-> stored[i], depth |-> 0] : i \in places}

\* C14 (as claimed): when the similarity search returns nothing for an indexed
\* project, the query completes without error and its candidates are the matches
\* of the substring search for the question, each at depth 0.
C14_FallbackToKeyword ==
    (QueryOfIndexed /\ vector_results = <<>>)
        => /\ http_status = 200
           /\ query_error = "None"
           /\ {all_elements_data[i] : i \in 1..Len(all_elements_data)}
                = KeywordModeCandidates

\* C15 (as claimed): whatever the outcome of the language-model call, _call_api
\* returns a text and raises nothing, and the extraction of references from the
\* answer executes.
C15_AlwaysText ==
    /\ qphase \in {"answered", "extracted", "raised"} => answer # NoAnswer
    /\ qphase # "raised"

\* the places of the candidates whose name occurs in the answer, case apart
CitedPlaces(elems, response) ==
    {i \in 1..Len(elems) : OccursIgnoringCase(Chars(elems[i].name), Chars(response))}

\* C16: extract_references_from_response cites a candidate if and only if its
\* name occurs in the answer, case apart; the references are in candidate order,
\* one for each cited candidate, with its file, name, type and lines.
C16_CitedIffNamed ==
    qphase = "extracted" =>
        LET places == CitedPlaces(code_elements, answer[1])
        IN  /\ Len(references) = Cardinality(places)
            /\ \E f \in [1..Len(references) -> places] :
                  /\ \A k, l \in 1..Len(references) : k < l => f[k] < f[l]
                  /\ \A k \in 1..Len(references) :
                        /\ references[k].file = code_elements[f[k]].file_path
                        /\ references[k].element = code_elements[f[k]].name
                        /\ references[k].type = code_elements[f[k]].type
                        /\ references[k].lines =
                              <<code_elements[f[k]].start_line,
                                code_elements[f[k]].end_line>>

\* the answer "foobar" over three candidates cites two of them and not the third
C16_Witness ==
    /\ qphase = "extracted"
    /\ answer = <<"foobar">>
    /\ Len(code_elements) = 3
    /\ Len(references) = 2
    /\ references[1].element # references[2].element

\* the project of the query has an element named foo
HasFoo ==
    \E i \in 1..Len(projects[request.project_id].elements) :
        projects[request.project_id].elements[i].name = "foo"

\* the model answers with a text that has "foo" in it
AnswerNamesFoo ==
    /\ api_outcome.kind = "choices"
    /\ Contains(Chars("foo"), Chars(api_outcome.content))

\* C17 (as claimed): for an indexed project with an element named foo, a query
\* whose question has the word "foo" in it completes successfully and has foo among
\* its references whenever the answer of the model has "foo" in it, in either
\* retrieval mode.
C17_FooIsReferenced ==
    (QueryOfIndexed /\ HasFoo /\ Contains(Chars("foo"), Chars(request.question))
        /\ AnswerNamesFoo)
        => /\ http_status = 200
           /\ \E k \in 1..Len(references) : references[k].element = "foo"

(***************************************************************************)
(* Properties of the pattern tier                                          *)
(***************************************************************************)
Extracted == {extracted[k] : k \in 1..Len(extracted)}

\* the lines after line s that end the block of a declaration on line s: not
\* blank, no comment, and indented no more than line s
EndingLines(s) ==
    {j \in (s + 1)..Len(lines) :
        /\ lines[j].text # ""
        /\ lines[j].text # "# note"
        /\ lines[j].indent <= lines[s].indent}

\* the least member of a non-empty set of numbers
Least(S) == CHOOSE x \in S : \A y \in S : x <= y

\* "def f():", two lines indented by 4, then a line indented by 0
BlockOfTwo ==
    <<[indent |-> 0, text |-> "def f():"], [indent |-> 4, text |-> "x = 1"],
      [indent |-> 4, text |-> "x = 1"], [indent |-> 0, text |-> "x = 1"]>>

C19_LineRange ==
    \A e \in Extracted :
        /\ 1 <= e.start_line
        /\ e.start_line <= e.end_line
        /\ e.end_line <= Len(lines) + 1

\* elements at both ends of the range: one that ends on its own line, one past the
\* last line
C19_Witness ==
    /\ xphase = "done"
    /\ \E e \in Extracted : e.end_line = e.start_line
    /\ \E e \in Extracted : e.end_line = Len(lines) + 1

\* C20 (as claimed): the element of a declaration matched on the last line of the
\* file ends on the last line: end_line is the number of lines of the file.
C20_LastLineEndsAtLength ==
    \A e \in Extracted : e.start_line = Len(lines) => e.end_line = Len(lines)

\* C25: the elements the pattern tier returns for a file are in the order of the
\* source lines: of two elements next to each other, the start_line of the first
\* is at most that of the second (Python, JavaScript/TypeScript, Java).
C25_SourceLineOrder ==
    \A k \in 1..(Len(extracted) - 1) :
        extracted[k].start_line <= extracted[k + 1].start_line

\* two elements of one line and one of a later line
C25_Witness ==
    /\ xphase = "done"
    /\ Len(extracted) = 3
    /\ extracted[1].start_line = extracted[2].start_line
    /\ extracted[2].start_line < extracted[3].start_line

(***************************************************************************)
(* Properties of the extraction of one file                                *)
(***************************************************************************)
\* what the pattern tier on its own gives for the lines from the i-th on
RECURSIVE PatternTierFrom(_, _, _)
PatternTierFrom(all_lines, lang, i) ==
    IF i > Len(all_lines) THEN <<>>
    ELSE LineElements(all_lines, i, lang) \o PatternTierFrom(all_lines, lang, i + 1)

\* the extractor made a structural attempt and it raised
StructuralFailed ==
    /\ file_language = "python"
    /\ "python" \in parsers
    /\ parse_fault # "none"

\* C21: when the structural parser (or the walk of its tree) raises for a file, the
\* extractor goes on with the pattern tier and returns the elements of the pattern
\* tier alone, nothing of what the tree walk had collected; the extraction ends
\* by returning.
C21_FallbackToPatternTier ==
    /\ (StructuralFailed /\ xphase \notin {"idle", "walking"})
          => (tier = "pattern" /\ xphase \in {"scanning", "done"})
    /\ (StructuralFailed /\ xphase = "done")
          => extracted = PatternTierFrom(lines, file_language, 1)

\* the tree walk had collected the class and the function in it when it raised,
\* and the pattern tier returned the class alone
C21_Witness ==
    /\ StructuralFailed
    /\ xphase = "done"
    /\ lines = ClassDef
    /\ Len(walked) = 2
    /\ Len(extracted) = 1
    /\ extracted[1].name = "A"

\* C26 (as claimed): the elements of a python, javascript, typescript or java
\* file come from the structural tier when a parser is registered for the
\* language and the structural attempt did not fail, and from the pattern tier
\* only when no parser is registered for it or the attempt failed.
C26_TierByAvailability ==
    (xphase = "done" /\ file_language \in {"python", "javascript", "typescript", "java"})
        => /\ (file_language \in parsers /\ parse_fault = "none") => tier = "structural"
           /\ tier = "pattern" => (file_language \notin parsers \/ parse_fault # "none")

(***************************************************************************)
(* Properties of the similarity index without a collection                 *)
(***************************************************************************)
\* C22: for a project id without a collection, search returns the empty list and
\* raises nothing, and get_element_with_dependencies returns the empty list and
\* raises nothing: it ends without a lookup made.
C22_NoCollectionIsEmpty ==
    ~hasCollection =>
        /\ vphase # "raised"
        /\ vphase = "searched" => vector_results = <<>>
        /\ dphase # "running"
        /\ dphase = "done" => (result = <<>> /\ visited = {} /\ nearest = <<>>)

\* both calls have returned for a project without a collection
C22_Witness ==
    /\ ~hasCollection
    /\ vphase = "searched"
    /\ dphase = "done"
    /\ vector_results = <<>>
    /\ result = <<>>

(***************************************************************************)
(* Properties of the dependency extraction                                 *)
(***************************************************************************)
\* the identifiers that stand directly before an opening parenthesis
CalledIdentifiers ==
    {w \in TokenPool \ Punctuation :
        \E i \in 1..Len(dep_code) :
            /\ dep_code[i] = w
            /\ \E j \in (i + 1)..Len(dep_code) :
                  /\ dep_code[j] = "("
                  /\ \A k \in (i + 1)..(j - 1) : dep_code[k] = " "}

Exclusions ==
    {"if", "for", "while", "return", "new", "this", "super", "print", "len", "str",
     "int"}

\* C23 (as claimed): for an element of python, java, javascript or typescript the
\* dependencies are exactly the identifiers that stand directly before an opening
\* parenthesis in its text, less the exclusion set; no member of the exclusion
\* set is among them.
C23_CalledIdentifiers ==
    (ephase = "done" /\ dep_language \in {"python", "java", "javascript", "typescript"})
        => /\ dependencies = CalledIdentifiers \ Exclusions
           /\ dependencies \cap Exclusions = {}

(***************************************************************************)
(* Properties of the language detection                                    *)
(***************************************************************************)
\* two extensions are the same, letter case apart
SameExtension(a, b) ==
    /\ Len(Chars(a)) = Len(Chars(b))
    /\ \A i \in 1..Len(Chars(a)) : SameLetter(Chars(a)[i], Chars(b)[i])

\* the keys of the table that are the extension of the file, letter case apart
TableKeys(name) == {e \in DOMAIN ExtMap : SameExtension(e, Suffix(name))}

\* C24: the language of a file is that of the table entry whose key is the
\* extension of the file, letter case apart, so that files whose extensions differ
\* in letter case only have one language; and it is none when the table has no
\* such key.
C24_ByExtensionAlone ==
    xphase # "idle" =>
        /\ TableKeys(file_name) = {} => file_language = NoLanguage
        /\ \A e \in TableKeys(file_name) : file_language = ExtMap[e]

\* a file with the extension .PY was taken for a Python file and its elements
\* extracted
C24_Witness ==
    /\ xphase = "done"
    /\ file_name = "B.PY"
    /\ file_language = "python"
    /\ extracted # <<>>

=============================================================================
